---- MODULE Spec2Model ----
(***************************************************************************)
(* swf_typed: reconstruction of a workflow execution's state by folding    *)
(* its history (src/src/swf_typed/_state.py).                              *)
(*                                                                         *)
(* build_state(execution_history) creates a _StateBuilder, feeds it every  *)
(* event of the iterable in order (_StateBuilder.build) and returns        *)
(* builder.execution.  The state of the model is the builder's state, the  *)
(* events the loop has taken from the iterable so far, and where the call  *)
(* is: still building, returned, or left by an exception.                  *)
(*                                                                         *)
(* Python objects that are reachable through more than one reference       *)
(* (a TaskState is in execution.tasks and in _tasks) live in an object     *)
(* table (taskObjs, childObjs, timerObjs); the lists and dictionaries hold *)
(* indices into it.                                                        *)
(***************************************************************************)
EXTENDS Integers, Sequences, FiniteSets, TLC

VARIABLES
    history,        \* events the for-loop of build() has taken so far
    pc,             \* "building" | "returned" | "raised" (by _process_event)
                    \* | "raised_at_return" (by build_state's return)
    error,          \* exception type that left build_state, or "none"
    execution,      \* builder.execution: Unset or an ExecutionState
    taskObjs,       \* every TaskState created, in creation order
    childObjs,      \* every ChildExecutionState created
    timerObjs,      \* every TimerState created
    _tasks,         \* scheduled event id -> index into taskObjs
    _child_executions,                  \* initiated event id -> index into childObjs
    _child_execution_initiation_events, \* initiated events seen
    _timers,        \* started event id -> index into timerObjs
    _latest_decision_event_id,  \* {} while the attribute is unset, else {id}
    other           \* a second build_state call in flight: its builder, the
                    \* events it has taken and where it is, while the
                    \* variables above are those of the call that is running

builderVars == <<execution, taskObjs, childObjs, timerObjs, _tasks,
                 _child_executions, _child_execution_initiation_events,
                 _timers, _latest_decision_event_id>>
\* One build_state call: its loop and its builder.
callVars == <<history, pc, error, execution, taskObjs, childObjs, timerObjs,
              _tasks, _child_executions, _child_execution_initiation_events,
              _timers, _latest_decision_event_id>>

(***************************************************************************)
(* iter_paged and the PageConsumer it returns (src/src/swf_typed/          *)
(* _common.py): the caller's thread iterates the consumer while the one    *)
(* worker thread of its executor fetches the next page.                    *)
(***************************************************************************)
VARIABLES
    pages,          \* the pages the paginated method serves, in token order
    ipc,            \* "not_called" | "ready" (the caller holds the consumer)
                    \* | "in_result" (send waits in Future.result)
                    \* | "stopped" (StopIteration) | "raised" (IndexError)
    response,       \* PageConsumer.response
    _i,             \* PageConsumer._i
    _future,        \* PageConsumer._future: {} for None, else {index into futures}
    futures,        \* what was submitted to the executor, in submission order
    calls,          \* the calls of the paginated method so far: their tokens
    yielded         \* what send has returned so far

pagerVars == <<pages, ipc, response, _i, _future, futures, calls, yielded>>

(***************************************************************************)
(* The helpers around one SWF request: signal_execution                    *)
(* (src/src/swf_typed/_executions.py), parse_timeout and                   *)
(* polling_socket_timeout (src/src/swf_typed/_common.py).                  *)
(***************************************************************************)
VARIABLES
    execution_history,  \* _StateBuilder.execution_history when it is a list
                    \* given in full: the events the loop has not taken yet;
                    \* <<>> when the iterable produces its events on demand
    requests,       \* what the SWF client was asked to do, in call order
    socket_default_timeout, \* socket.getdefaulttimeout(): {} for None,
                    \* else {seconds}
    contexts,       \* the polling_socket_timeout contexts that are open,
                    \* innermost last: the frames of their generators
    raising,        \* the exception travelling out of the with-bodies,
                    \* or "none"
    timeout_data,   \* the argument of parse_timeout
    parsed          \* what parse_timeout returned; Unset before the call

utilVars == <<requests, socket_default_timeout, contexts, raising,
              timeout_data, parsed>>

(***************************************************************************)
(* The other calls on a PageConsumer (get_page, throw), and the classes    *)
(* that convert between the library's values and the API's:                *)
(* ExceptionRedirectMethodWrapper (src/src/swf_typed/_exceptions.py),      *)
(* DecisionTask (src/src/swf_typed/_decisions.py),                         *)
(* PartialExecutionConfiguration (src/src/swf_typed/_executions.py) and    *)
(* ActivityId (src/src/swf_typed/_activities.py).                          *)
(***************************************************************************)
VARIABLES
    getting,        \* the get_page call that waits in Future.result: {} for
                    \* none, else {its arguments}
    returned,       \* what the get_page calls returned, in call order
    thrown,         \* how the throw call ended, or "no" when none was made
    _f,             \* the wrapped client method: what a call of it does
    called,         \* how the call of the wrapper ended; Unset before it
    _execution_history_iter,    \* DecisionTask._execution_history_iter
    _execution_history_list,    \* DecisionTask._execution_history_list
    generator,      \* the generator execution_history_iter returned: {} for
                    \* none, else {the frame of its for statement}
    history_read,   \* what the reads of DecisionTask.execution_history
                    \* returned, in read order
    api_data,       \* the API data a configuration is made from
    partial_configuration,  \* what from_api returned; Unset before the call
    api_args,       \* what get_api_args returned; Unset before the call
    activity_id     \* the ActivityId the activity functions are called with

walkVars == <<getting, returned, thrown>>
wrapperVars == <<_f, called>>
taskVars == <<_execution_history_iter, _execution_history_list, generator,
              history_read>>
formVars == <<api_data, partial_configuration, api_args, activity_id>>
moreVars == <<walkVars, wrapperVars, taskVars, formVars>>

vars == <<history, pc, error, execution, taskObjs, childObjs, timerObjs, _tasks,
          _child_executions, _child_execution_initiation_events,
          _timers, _latest_decision_event_id, other,
          pages, ipc, response, _i, _future, futures, calls, yielded,
          execution_history, requests, socket_default_timeout, contexts,
          raising, timeout_data, parsed,
          getting, returned, thrown, _f, called,
          _execution_history_iter, _execution_history_list, generator,
          history_read, api_data, partial_configuration, api_args,
          activity_id>>

(***************************************************************************)
(* Bounds of the model: the longest history each specification folds.      *)
(***************************************************************************)
MaxEvents == 3
MaxTaskEvents == 5
MaxExecutionEvents == 5
MaxSignalEvents == 6
MaxChildEvents == 5
MaxScenarioEvents == 5
\* Two calls in flight: the events the two of them take together.
MaxReplayEvents == 4
\* Histories mixing the kinds of entity with the execution's start and end.
MaxMixedEvents == 4
\* Paginated results: the longest chain of pages and the largest page.
MaxPages == 3
MaxPageItems == 2

(***************************************************************************)
(* Values.  None is Python's None; Unset is an attribute never assigned.   *)
(***************************************************************************)
None == "None"
Unset == [unset |-> TRUE]

\* The string SWF sends for no timeout; a string that is parsed is the
\* sequence of its characters.
NONE == <<"N", "O", "N", "E">>

\* The last element of a list: seq[-1].
Last(seq) == seq[Len(seq)]

Inputs == {"x"}
ExecutionResults == {"done"}
TaskResults == {"ok"}
Reasons == {"r1"}
Details == {"d1"}
Controls == {"k1"}
Configurations == {"C1"}
TaskIds == {"t1", "t2"}
Workers == {"w1", "w2"}
Activities == {"A1"}
TimeoutTypes == {"START_TO_CLOSE"}

\* The id of the next event of the history: the service numbers the events
\* of an execution 1, 2, 3, ... in the order it records them.
NextId == Len(history) + 1
\* The time the event with the given id occurred: one clock tick per event.
Occured(id) == "T" \o ToString(id)
\* Back-references an event can carry: any id up to its own.
EventIds == 1..NextId

TaskStatus == {"scheduled", "started", "completed", "failed", "cancelled", "timed_out"}
ExecutionStatus == {"started", "completed", "failed", "cancelled", "terminated", "timed_out"}

TaskState(id, activity, configuration, scheduled, input, decider_control) ==
    [id |-> id, status |-> "scheduled", activity |-> activity,
     configuration |-> configuration, scheduled |-> scheduled,
     started |-> None, ended |-> None, input |-> input,
     worker_identity |-> None, cancel_requested |-> FALSE, result |-> None,
     timeout_type |-> None, failure_reason |-> None, stop_details |-> None,
     decider_control |-> decider_control]

has_ended(task) == task.status \notin {"scheduled", "started"}

ExecutionState(configuration, started, input) ==
    [status |-> "started", configuration |-> configuration,
     started |-> started, ended |-> None, tasks |-> <<>>,
     child_executions |-> <<>>, timers |-> <<>>, signals |-> <<>>,
     input |-> input, cancel_requested |-> FALSE, result |-> None,
     failure_reason |-> None, stop_details |-> None]

(***************************************************************************)
(* _StateBuilder.__init__                                                  *)
(***************************************************************************)
\* A build_state call that has made its builder and taken no event yet.
NewCall ==
    [history |-> <<>>, pc |-> "building", error |-> "none",
     execution |-> Unset, taskObjs |-> <<>>, childObjs |-> <<>>,
     timerObjs |-> <<>>, _tasks |-> <<>>, _child_executions |-> <<>>,
     _child_execution_initiation_events |-> <<>>, _timers |-> <<>>,
     _latest_decision_event_id |-> {}]

\* No get_page or throw call on the consumer.
NoWalk ==
    /\ getting = {}
    /\ returned = <<>>
    /\ thrown = "no"

\* No wrapped method, no decision task, no configuration and no activity.
NoWrapper ==
    /\ _f = Unset
    /\ called = Unset

NoTask ==
    /\ _execution_history_iter = Unset
    /\ _execution_history_list = <<>>
    /\ generator = {}
    /\ history_read = <<>>

NoForm ==
    /\ api_data = Unset
    /\ partial_configuration = Unset
    /\ api_args = Unset

NoActivity == activity_id = Unset

Init ==
    /\ history = <<>>
    /\ pc = "building"
    /\ error = "none"
    /\ execution = Unset
    /\ taskObjs = <<>>
    /\ childObjs = <<>>
    /\ timerObjs = <<>>
    /\ _tasks = <<>>
    /\ _child_executions = <<>>
    /\ _child_execution_initiation_events = <<>>
    /\ _timers = <<>>
    /\ _latest_decision_event_id = {}
    /\ other = NewCall
    /\ pages = <<>>
    /\ ipc = "not_called"
    /\ response = Unset
    /\ _i = 0
    /\ _future = {}
    /\ futures = <<>>
    /\ calls = <<>>
    /\ yielded = <<>>
    /\ execution_history = <<>>
    /\ requests = <<>>
    /\ socket_default_timeout = {}
    /\ contexts = <<>>
    /\ raising = "none"
    /\ timeout_data = NONE
    /\ parsed = Unset
    /\ NoWalk
    /\ NoWrapper
    /\ NoTask
    /\ NoForm
    /\ NoActivity

(***************************************************************************)
(* The loop of build(): an event is taken from the iterable and handed to  *)
(* _process_event, which either returns or raises.                         *)
(***************************************************************************)
\* Mutant: the loop catches the exception of an event and goes on.
BuildingAfterFault == pc \in {"building", "raised"}

Building == pc = "building"

\* Mutant: the loop takes the events by ascending event id, not in the order
\* of the iterable.
nextLowestId(iterator) ==
    LET k == CHOOSE k \in 1..Len(iterator) :
                \A j \in 1..Len(iterator) : iterator[k].id <= iterator[j].id
    IN  [event |-> iterator[k],
         iterator |-> SubSeq(iterator, 1, k - 1)
                        \o SubSeq(iterator, k + 1, Len(iterator))]

\* The for statement asks the iterator for its next element (line 299): the
\* element it returns and what the iterator holds afterwards.
next(iterator) == [event |-> Head(iterator), iterator |-> Tail(iterator)]

\* What the iterator holds once the loop has taken an event.
Advanced ==
    IF execution_history = <<>> THEN <<>> ELSE next(execution_history).iterator

\* _process_event returned: the loop goes on.
Processed(event) ==
    /\ history' = Append(history, event)
    /\ execution_history' = Advanced
    /\ UNCHANGED <<pc, error, other>>
    /\ UNCHANGED pagerVars
    /\ UNCHANGED <<utilVars, moreVars>>

\* _process_event raised: the exception leaves build() and build_state().
Raise(event, exception) ==
    /\ history' = Append(history, event)
    /\ pc' = "raised"
    /\ error' = exception
    /\ execution_history' = Advanced
    /\ UNCHANGED builderVars
    /\ UNCHANGED other
    /\ UNCHANGED pagerVars
    /\ UNCHANGED <<utilVars, moreVars>>

\* KeyError is a subclass of LookupError.
IsLookupError(exception) == exception \in {"LookupError", "KeyError"}

(***************************************************************************)
(* Execution events.                                                       *)
(***************************************************************************)
WorkflowExecutionStartedEvents ==
    [type : {"WorkflowExecutionStarted"}, id : {NextId}, occured : {Occured(NextId)},
     execution_configuration : Configurations, execution_input : Inputs]

\* Mutant: an execution-started event folded while a snapshot exists keeps
\* the snapshot's collections.
WorkflowExecutionStartedKeepingCollections(event) ==
    /\ Building
    /\ execution' =
            IF execution = Unset
            THEN ExecutionState(event.execution_configuration, event.occured,
                                event.execution_input)
            ELSE [ExecutionState(event.execution_configuration, event.occured,
                                 event.execution_input)
                    EXCEPT !.tasks = execution.tasks,
                           !.child_executions = execution.child_executions,
                           !.timers = execution.timers,
                           !.signals = execution.signals]
    /\ Processed(event)
    /\ UNCHANGED <<taskObjs, childObjs, timerObjs, _tasks, _child_executions,
                   _child_execution_initiation_events, _timers,
                   _latest_decision_event_id>>

WorkflowExecutionStartedEvent(event) ==
    /\ Building
    /\ execution' = ExecutionState(event.execution_configuration, event.occured,
                                   event.execution_input)
    /\ Processed(event)
    /\ UNCHANGED <<taskObjs, childObjs, timerObjs, _tasks, _child_executions,
                   _child_execution_initiation_events, _timers,
                   _latest_decision_event_id>>

\* Mutant: a timed-out execution is recorded as terminated.
ExecutionClosedTimedOutAsTerminated(state, event) ==
    CASE event.type = "WorkflowExecutionCompleted" ->
            [state EXCEPT !.status = "completed", !.ended = event.occured,
                          !.result = event.execution_result]
      [] event.type = "WorkflowExecutionFailed" ->
            [state EXCEPT !.status = "failed", !.ended = event.occured,
                          !.failure_reason = event.reason,
                          !.stop_details = event.details]
      [] event.type = "WorkflowExecutionCancelled" ->
            [state EXCEPT !.status = "cancelled", !.ended = event.occured,
                          !.stop_details = event.details]
      [] event.type = "WorkflowExecutionTerminated" ->
            [state EXCEPT !.status = "terminated", !.ended = event.occured,
                          !.failure_reason = event.reason,
                          !.stop_details = event.details]
      [] event.type = "WorkflowExecutionTimedOut" ->
            [state EXCEPT !.status = "terminated", !.ended = event.occured]

\* Mutant: a cancelled execution has its cancel request cleared.
ExecutionClosedClearingCancelRequest(state, event) ==
    CASE event.type = "WorkflowExecutionCompleted" ->
            [state EXCEPT !.status = "completed", !.ended = event.occured,
                          !.result = event.execution_result]
      [] event.type = "WorkflowExecutionFailed" ->
            [state EXCEPT !.status = "failed", !.ended = event.occured,
                          !.failure_reason = event.reason,
                          !.stop_details = event.details]
      [] event.type = "WorkflowExecutionCancelled" ->
            [state EXCEPT !.status = "cancelled", !.ended = event.occured,
                          !.stop_details = event.details,
                          !.cancel_requested = FALSE]
      [] event.type = "WorkflowExecutionTerminated" ->
            [state EXCEPT !.status = "terminated", !.ended = event.occured,
                          !.failure_reason = event.reason,
                          !.stop_details = event.details]
      [] event.type = "WorkflowExecutionTimedOut" ->
            [state EXCEPT !.status = "timed_out", !.ended = event.occured]

\* Fields an execution-closing event sets on the snapshot (lines 142-162).
ExecutionClosed(state, event) ==
    CASE event.type = "WorkflowExecutionCompleted" ->
            [state EXCEPT !.status = "completed", !.ended = event.occured,
                          !.result = event.execution_result]
      [] event.type = "WorkflowExecutionFailed" ->
            [state EXCEPT !.status = "failed", !.ended = event.occured,
                          !.failure_reason = event.reason,
                          !.stop_details = event.details]
      [] event.type = "WorkflowExecutionCancelled" ->
            [state EXCEPT !.status = "cancelled", !.ended = event.occured,
                          !.stop_details = event.details]
      [] event.type = "WorkflowExecutionTerminated" ->
            [state EXCEPT !.status = "terminated", !.ended = event.occured,
                          !.failure_reason = event.reason,
                          !.stop_details = event.details]
      [] event.type = "WorkflowExecutionTimedOut" ->
            [state EXCEPT !.status = "timed_out", !.ended = event.occured]

\* Mutant: every execution event also stamps the snapshot's start time.
MutateExecutionStampingStarted(event, state) ==
    /\ Building
    /\ IF execution = Unset
       THEN Raise(event, "AttributeError")
       ELSE /\ execution' = [state EXCEPT !.started = event.occured]
            /\ Processed(event)
            /\ UNCHANGED <<taskObjs, childObjs, timerObjs, _tasks,
                           _child_executions, _child_execution_initiation_events,
                           _timers, _latest_decision_event_id>>


\* Mutant: an execution that has ended takes no further execution event.
MutateExecutionRejectingClosed(event, state) ==
    /\ Building
    /\ IF execution = Unset
       THEN Raise(event, "AttributeError")
       ELSE IF execution.status # "started"
       THEN Raise(event, "ValueError")
       ELSE /\ execution' = state
            /\ Processed(event)
            /\ UNCHANGED <<taskObjs, childObjs, timerObjs, _tasks,
                           _child_executions, _child_execution_initiation_events,
                           _timers, _latest_decision_event_id>>

\* An event that only assigns fields of self.execution: reading the
\* attribute fails while no execution-started event has set it.
MutateExecution(event, state) ==
    /\ Building
    /\ IF execution = Unset
       THEN Raise(event, "AttributeError")
       ELSE /\ execution' = state
            /\ Processed(event)
            /\ UNCHANGED <<taskObjs, childObjs, timerObjs, _tasks,
                           _child_executions, _child_execution_initiation_events,
                           _timers, _latest_decision_event_id>>

WorkflowExecutionCompletedEvents ==
    [type : {"WorkflowExecutionCompleted"}, id : {NextId}, occured : {Occured(NextId)},
     execution_result : ExecutionResults]
WorkflowExecutionFailedEvents ==
    [type : {"WorkflowExecutionFailed"}, id : {NextId}, occured : {Occured(NextId)},
     reason : Reasons, details : Details]
WorkflowExecutionCancelledEvents ==
    [type : {"WorkflowExecutionCancelled"}, id : {NextId}, occured : {Occured(NextId)},
     details : Details]
WorkflowExecutionTerminatedEvents ==
    [type : {"WorkflowExecutionTerminated"}, id : {NextId}, occured : {Occured(NextId)},
     reason : Reasons, details : Details]
WorkflowExecutionTimedOutEvents ==
    [type : {"WorkflowExecutionTimedOut"}, id : {NextId}, occured : {Occured(NextId)}]
WorkflowExecutionCancelRequestedEvents ==
    [type : {"WorkflowExecutionCancelRequested"}, id : {NextId}, occured : {Occured(NextId)}]

WorkflowExecutionCompletedEvent(event) ==
    MutateExecution(event, ExecutionClosed(execution, event))
WorkflowExecutionFailedEvent(event) ==
    MutateExecution(event, ExecutionClosed(execution, event))
WorkflowExecutionCancelledEvent(event) ==
    MutateExecution(event, ExecutionClosed(execution, event))
WorkflowExecutionTerminatedEvent(event) ==
    MutateExecution(event, ExecutionClosed(execution, event))
WorkflowExecutionTimedOutEvent(event) ==
    MutateExecution(event, ExecutionClosed(execution, event))
WorkflowExecutionCancelRequestedEvent(event) ==
    MutateExecution(event, [execution EXCEPT !.cancel_requested = TRUE])

(***************************************************************************)
(* Activity task events.                                                   *)
(***************************************************************************)
ActivityTaskScheduledEvents ==
    [type : {"ActivityTaskScheduled"}, id : {NextId}, occured : {Occured(NextId)},
     task_id : TaskIds, activity : Activities,
     task_configuration : Configurations, task_input : Inputs,
     control : Controls]
ActivityTaskStartedEvents ==
    [type : {"ActivityTaskStarted"}, id : {NextId}, occured : {Occured(NextId)},
     task_scheduled_event_id : EventIds, worker_identity : Workers]
ActivityTaskCompletedEvents ==
    [type : {"ActivityTaskCompleted"}, id : {NextId}, occured : {Occured(NextId)},
     task_scheduled_event_id : EventIds, task_result : TaskResults]
ActivityTaskFailedEvents ==
    [type : {"ActivityTaskFailed"}, id : {NextId}, occured : {Occured(NextId)},
     task_scheduled_event_id : EventIds, reason : Reasons, details : Details]
ActivityTaskCancelledEvents ==
    [type : {"ActivityTaskCancelled"}, id : {NextId}, occured : {Occured(NextId)},
     task_scheduled_event_id : EventIds, details : Details]
ActivityTaskTimedOutEvents ==
    [type : {"ActivityTaskTimedOut"}, id : {NextId}, occured : {Occured(NextId)},
     task_scheduled_event_id : EventIds, timeout_type : TimeoutTypes,
     details : Details]
ActivityTaskCancelRequestedEvents ==
    [type : {"ActivityTaskCancelRequested"}, id : {NextId}, occured : {Occured(NextId)},
     task_id : TaskIds]

ActivityTaskScheduledEvent(event) ==
    /\ Building
    /\ IF execution = Unset
       THEN Raise(event, "AttributeError")
       ELSE /\ taskObjs' = Append(taskObjs,
                    TaskState(event.task_id, event.activity,
                              event.task_configuration, event.occured,
                              event.task_input, event.control))
            /\ execution' = [execution EXCEPT
                                !.tasks = Append(@, Len(taskObjs) + 1)]
            /\ _tasks' = (event.id :> (Len(taskObjs) + 1)) @@ _tasks
            /\ Processed(event)
            /\ UNCHANGED <<childObjs, timerObjs, _child_executions,
                           _child_execution_initiation_events, _timers,
                           _latest_decision_event_id>>

\* Mutant: a completed task's result is stored in stop_details.
TaskUpdatedResultAsDetails(task, event) ==
    CASE event.type = "ActivityTaskStarted" ->
            [task EXCEPT !.status = "started", !.started = event.occured,
                         !.worker_identity = event.worker_identity]
      [] event.type = "ActivityTaskCompleted" ->
            [task EXCEPT !.status = "completed", !.ended = event.occured,
                         !.stop_details = event.task_result]
      [] event.type = "ActivityTaskFailed" ->
            [task EXCEPT !.status = "failed", !.ended = event.occured,
                         !.failure_reason = event.reason,
                         !.stop_details = event.details]
      [] event.type = "ActivityTaskCancelled" ->
            [task EXCEPT !.status = "cancelled", !.ended = event.occured,
                         !.stop_details = event.details]
      [] event.type = "ActivityTaskTimedOut" ->
            [task EXCEPT !.status = "timed_out", !.ended = event.occured,
                         !.timeout_type = event.timeout_type,
                         !.stop_details = event.details]

\* Mutant: the failed branch records reason and details but not the status.
TaskUpdatedFailedWithoutStatus(task, event) ==
    CASE event.type = "ActivityTaskStarted" ->
            [task EXCEPT !.status = "started", !.started = event.occured,
                         !.worker_identity = event.worker_identity]
      [] event.type = "ActivityTaskCompleted" ->
            [task EXCEPT !.status = "completed", !.ended = event.occured,
                         !.result = event.task_result]
      [] event.type = "ActivityTaskFailed" ->
            [task EXCEPT !.ended = event.occured,
                         !.failure_reason = event.reason,
                         !.stop_details = event.details]
      [] event.type = "ActivityTaskCancelled" ->
            [task EXCEPT !.status = "cancelled", !.ended = event.occured,
                         !.stop_details = event.details]
      [] event.type = "ActivityTaskTimedOut" ->
            [task EXCEPT !.status = "timed_out", !.ended = event.occured,
                         !.timeout_type = event.timeout_type,
                         !.stop_details = event.details]

\* Fields a task follow-up event sets on the task it refers to (lines 182-206).
TaskUpdated(task, event) ==
    CASE event.type = "ActivityTaskStarted" ->
            [task EXCEPT !.status = "started", !.started = event.occured,
                         !.worker_identity = event.worker_identity]
      [] event.type = "ActivityTaskCompleted" ->
            [task EXCEPT !.status = "completed", !.ended = event.occured,
                         !.result = event.task_result]
      [] event.type = "ActivityTaskFailed" ->
            [task EXCEPT !.status = "failed", !.ended = event.occured,
                         !.failure_reason = event.reason,
                         !.stop_details = event.details]
      [] event.type = "ActivityTaskCancelled" ->
            [task EXCEPT !.status = "cancelled", !.ended = event.occured,
                         !.stop_details = event.details]
      [] event.type = "ActivityTaskTimedOut" ->
            [task EXCEPT !.status = "timed_out", !.ended = event.occured,
                         !.timeout_type = event.timeout_type,
                         !.stop_details = event.details]

\* Mutant: an unknown back-reference is skipped (dict.get and a None test).
TaskFollowUpSkippingUnknown(event) ==
    /\ Building
    /\ IF event.task_scheduled_event_id \notin DOMAIN _tasks
       THEN Processed(event) /\ UNCHANGED builderVars
       ELSE /\ taskObjs' = [taskObjs EXCEPT
                    ![_tasks[event.task_scheduled_event_id]] = TaskUpdated(@, event)]
            /\ Processed(event)
            /\ UNCHANGED <<execution, childObjs, timerObjs, _tasks,
                           _child_executions, _child_execution_initiation_events,
                           _timers, _latest_decision_event_id>>

\* Mutant: the updated task is moved to the end of execution.tasks.
TaskFollowUpMovingToEnd(event) ==
    /\ Building
    /\ IF event.task_scheduled_event_id \notin DOMAIN _tasks
       THEN Raise(event, "KeyError")
       ELSE LET ref == _tasks[event.task_scheduled_event_id]
            IN  /\ taskObjs' = [taskObjs EXCEPT ![ref] = TaskUpdated(@, event)]
                /\ execution' =
                        IF execution = Unset THEN execution
                        ELSE [execution EXCEPT !.tasks =
                                Append(SelectSeq(@, LAMBDA r : r # ref), ref)]
                /\ Processed(event)
                /\ UNCHANGED <<childObjs, timerObjs, _tasks,
                               _child_executions, _child_execution_initiation_events,
                               _timers, _latest_decision_event_id>>

\* Mutant: the follow-up is applied to the task scheduled last.
TaskFollowUpLatestTask(event) ==
    /\ Building
    /\ IF event.task_scheduled_event_id \notin DOMAIN _tasks
       THEN Raise(event, "KeyError")
       ELSE /\ taskObjs' = [taskObjs EXCEPT
                    ![Len(taskObjs)] = TaskUpdated(@, event)]
            /\ Processed(event)
            /\ UNCHANGED <<execution, childObjs, timerObjs, _tasks,
                           _child_executions, _child_execution_initiation_events,
                           _timers, _latest_decision_event_id>>

\* Mutant: a follow-up is folded only along scheduled -> started ->
\* completed/failed/cancelled/timed_out; any other one is rejected.
TaskFollowUpCheckingOrder(event) ==
    /\ Building
    /\ IF event.task_scheduled_event_id \notin DOMAIN _tasks
       THEN Raise(event, "KeyError")
       ELSE LET task == taskObjs[_tasks[event.task_scheduled_event_id]]
            IN  IF \/ task.status = "scheduled" /\ event.type = "ActivityTaskStarted"
                   \/ task.status = "started" /\ event.type # "ActivityTaskStarted"
                THEN /\ taskObjs' = [taskObjs EXCEPT
                            ![_tasks[event.task_scheduled_event_id]] =
                                TaskUpdated(@, event)]
                     /\ Processed(event)
                     /\ UNCHANGED <<execution, childObjs, timerObjs, _tasks,
                                    _child_executions,
                                    _child_execution_initiation_events,
                                    _timers, _latest_decision_event_id>>
                ELSE Raise(event, "ValueError")

\* task = self._tasks[event.task_scheduled_event_id], then field assignments.
TaskFollowUp(event) ==
    /\ Building
    /\ IF event.task_scheduled_event_id \notin DOMAIN _tasks
       THEN Raise(event, "KeyError")
       ELSE /\ taskObjs' = [taskObjs EXCEPT
                    ![_tasks[event.task_scheduled_event_id]] = TaskUpdated(@, event)]
            /\ Processed(event)
            /\ UNCHANGED <<execution, childObjs, timerObjs, _tasks,
                           _child_executions, _child_execution_initiation_events,
                           _timers, _latest_decision_event_id>>

ActivityTaskStartedEvent(event) == TaskFollowUp(event)
ActivityTaskCompletedEvent(event) == TaskFollowUp(event)
ActivityTaskFailedEvent(event) == TaskFollowUp(event)
ActivityTaskCancelledEvent(event) == TaskFollowUp(event)
ActivityTaskTimedOutEvent(event) == TaskFollowUp(event)

\* Indices (into taskObjs) of the tasks of execution.tasks with the given id.
TasksWithId(task_id) ==
    {i \in 1..Len(execution.tasks) : taskObjs[execution.tasks[i]].id = task_id}

\* Mutant: the first task with the id is taken (next(tasks)), however many
\* there are.
ActivityTaskCancelRequestedFirstMatch(event) ==
    /\ Building
    /\ IF execution = Unset
       THEN Raise(event, "AttributeError")
       ELSE IF TasksWithId(event.task_id) = {}
       THEN Raise(event, "LookupError")
       ELSE /\ LET i == CHOOSE i \in TasksWithId(event.task_id) :
                            \A j \in TasksWithId(event.task_id) : i <= j
               IN  taskObjs' = [taskObjs EXCEPT
                        ![execution.tasks[i]].cancel_requested = TRUE]
            /\ Processed(event)
            /\ UNCHANGED <<execution, childObjs, timerObjs, _tasks,
                           _child_executions, _child_execution_initiation_events,
                           _timers, _latest_decision_event_id>>

\* Mutant: the request is taken for the cancellation: the task is marked
\* cancelled and ended as well.
ActivityTaskCancelRequestedCancelling(event) ==
    /\ Building
    /\ IF execution = Unset
       THEN Raise(event, "AttributeError")
       ELSE IF Cardinality(TasksWithId(event.task_id)) # 1
       THEN Raise(event, "LookupError")
       ELSE /\ LET i == CHOOSE i \in TasksWithId(event.task_id) : TRUE
               IN  taskObjs' = [taskObjs EXCEPT
                        ![execution.tasks[i]].cancel_requested = TRUE,
                        ![execution.tasks[i]].status = "cancelled",
                        ![execution.tasks[i]].ended = event.occured]
            /\ Processed(event)
            /\ UNCHANGED <<execution, childObjs, timerObjs, _tasks,
                           _child_executions, _child_execution_initiation_events,
                           _timers, _latest_decision_event_id>>

ActivityTaskCancelRequestedEvent(event) ==
    /\ Building
    /\ IF execution = Unset
       THEN Raise(event, "AttributeError")
       ELSE IF Cardinality(TasksWithId(event.task_id)) # 1
       THEN Raise(event, "LookupError")
       ELSE /\ LET i == CHOOSE i \in TasksWithId(event.task_id) : TRUE
               IN  taskObjs' = [taskObjs EXCEPT
                        ![execution.tasks[i]].cancel_requested = TRUE]
            /\ Processed(event)
            /\ UNCHANGED <<execution, childObjs, timerObjs, _tasks,
                           _child_executions, _child_execution_initiation_events,
                           _timers, _latest_decision_event_id>>

(***************************************************************************)
(* Child execution events.                                                 *)
(***************************************************************************)
Workflows == {"W1", "W2"}
ChildConfigurations == {"C1", "C2"}
ExecutionIds == {"e1"}

ChildExecutionState(child, workflow, configuration, started, input, decider_control) ==
    [execution |-> child, workflow |-> workflow, status |-> "started",
     configuration |-> configuration, started |-> started, ended |-> None,
     input |-> input, result |-> None, timeout_type |-> None,
     failure_reason |-> None, stop_details |-> None,
     decider_control |-> decider_control]

StartChildWorkflowExecutionInitiatedEvents ==
    [type : {"StartChildWorkflowExecutionInitiated"}, id : {NextId},
     occured : {Occured(NextId)}, workflow : Workflows,
     execution_configuration : ChildConfigurations,
     execution_input : Inputs, control : Controls]
ChildWorkflowExecutionStartedEvents ==
    [type : {"ChildWorkflowExecutionStarted"}, id : {NextId},
     occured : {Occured(NextId)}, execution_initiated_event_id : EventIds,
     execution : ExecutionIds]
ChildWorkflowExecutionCompletedEvents ==
    [type : {"ChildWorkflowExecutionCompleted"}, id : {NextId},
     occured : {Occured(NextId)}, execution_initiated_event_id : EventIds,
     execution_result : ExecutionResults]
ChildWorkflowExecutionFailedEvents ==
    [type : {"ChildWorkflowExecutionFailed"}, id : {NextId},
     occured : {Occured(NextId)}, execution_initiated_event_id : EventIds,
     reason : Reasons, details : Details]
ChildWorkflowExecutionCancelledEvents ==
    [type : {"ChildWorkflowExecutionCancelled"}, id : {NextId},
     occured : {Occured(NextId)}, execution_initiated_event_id : EventIds,
     details : Details]
ChildWorkflowExecutionTerminatedEvents ==
    [type : {"ChildWorkflowExecutionTerminated"}, id : {NextId},
     occured : {Occured(NextId)}, execution_initiated_event_id : EventIds]
ChildWorkflowExecutionTimedOutEvents ==
    [type : {"ChildWorkflowExecutionTimedOut"}, id : {NextId},
     occured : {Occured(NextId)}, execution_initiated_event_id : EventIds]

\* Mutant: the child entity is created and registered at initiation.
StartChildWorkflowExecutionInitiatedEager(event) ==
    /\ Building
    /\ IF execution = Unset
       THEN Raise(event, "AttributeError")
       ELSE /\ _child_execution_initiation_events' =
                    Append(_child_execution_initiation_events, event)
            /\ childObjs' = Append(childObjs,
                    ChildExecutionState(None, event.workflow,
                                        event.execution_configuration, None,
                                        event.execution_input, event.control))
            /\ execution' = [execution EXCEPT
                    !.child_executions = Append(@, Len(childObjs) + 1)]
            /\ _child_executions' = (event.id :> (Len(childObjs) + 1))
                                        @@ _child_executions
            /\ Processed(event)
            /\ UNCHANGED <<taskObjs, timerObjs, _tasks, _timers,
                           _latest_decision_event_id>>

StartChildWorkflowExecutionInitiatedEvent(event) ==
    /\ Building
    /\ _child_execution_initiation_events' =
            Append(_child_execution_initiation_events, event)
    /\ Processed(event)
    /\ UNCHANGED <<execution, taskObjs, childObjs, timerObjs, _tasks,
                   _child_executions, _timers, _latest_decision_event_id>>

\* Positions of the recorded initiation events with the given id.
InitiationsWithId(id) ==
    {i \in 1..Len(_child_execution_initiation_events) :
        _child_execution_initiation_events[i].id = id}

\* The child a started event creates from its initiation event (lines 229-237).
ChildStarted(initiation_event, event) ==
    ChildExecutionState(event.execution, initiation_event.workflow,
                        initiation_event.execution_configuration, event.occured,
                        initiation_event.execution_input,
                        initiation_event.control)

\* Mutant: the child is registered under the started event's own id.
ChildRegistrationKeyOwnId(initiation_event, event) == event.id

\* The key of the child in _child_executions (line 239).
ChildRegistrationKey(initiation_event, event) == initiation_event.id

\* Mutant: the child is put into the snapshot's list at the place of its
\* initiation among the initiations of the children already there.
ChildWorkflowExecutionStartedInInitiationOrder(event) ==
    /\ Building
    /\ IF Cardinality(InitiationsWithId(event.execution_initiated_event_id)) # 1
       THEN Raise(event, "LookupError")
       ELSE IF execution = Unset
       THEN Raise(event, "AttributeError")
       ELSE LET i == CHOOSE i \in InitiationsWithId(event.execution_initiated_event_id) : TRUE
                initiation_event == _child_execution_initiation_events[i]
                key(c) ==
                    IF \E id \in DOMAIN _child_executions : _child_executions[id] = c
                    THEN CHOOSE id \in DOMAIN _child_executions :
                            _child_executions[id] = c
                    ELSE 0
                before == SelectSeq(execution.child_executions,
                            LAMBDA c : key(c) <= initiation_event.id)
                after == SelectSeq(execution.child_executions,
                            LAMBDA c : key(c) > initiation_event.id)
            IN  /\ childObjs' = Append(childObjs, ChildStarted(initiation_event, event))
                /\ execution' = [execution EXCEPT
                        !.child_executions =
                            before \o <<Len(childObjs) + 1>> \o after]
                /\ _child_executions' =
                        (ChildRegistrationKey(initiation_event, event) :> (Len(childObjs) + 1))
                            @@ _child_executions
                /\ Processed(event)
                /\ UNCHANGED <<taskObjs, timerObjs, _tasks,
                               _child_execution_initiation_events, _timers,
                               _latest_decision_event_id>>

ChildWorkflowExecutionStartedEvent(event) ==
    /\ Building
    /\ IF Cardinality(InitiationsWithId(event.execution_initiated_event_id)) # 1
       THEN Raise(event, "LookupError")
       ELSE IF execution = Unset
       THEN Raise(event, "AttributeError")
       ELSE LET i == CHOOSE i \in InitiationsWithId(event.execution_initiated_event_id) : TRUE
                initiation_event == _child_execution_initiation_events[i]
            IN  /\ childObjs' = Append(childObjs, ChildStarted(initiation_event, event))
                /\ execution' = [execution EXCEPT
                        !.child_executions = Append(@, Len(childObjs) + 1)]
                /\ _child_executions' =
                        (ChildRegistrationKey(initiation_event, event) :> (Len(childObjs) + 1))
                            @@ _child_executions
                /\ Processed(event)
                /\ UNCHANGED <<taskObjs, timerObjs, _tasks,
                               _child_execution_initiation_events, _timers,
                               _latest_decision_event_id>>

\* Fields a child follow-up event sets on the child it refers to (lines 242-263).
ChildUpdated(child, event) ==
    CASE event.type = "ChildWorkflowExecutionCompleted" ->
            [child EXCEPT !.status = "completed", !.ended = event.occured,
                          !.result = event.execution_result]
      [] event.type = "ChildWorkflowExecutionFailed" ->
            [child EXCEPT !.status = "failed", !.ended = event.occured,
                          !.failure_reason = event.reason,
                          !.stop_details = event.details]
      [] event.type = "ChildWorkflowExecutionCancelled" ->
            [child EXCEPT !.status = "cancelled", !.ended = event.occured,
                          !.stop_details = event.details]
      [] event.type = "ChildWorkflowExecutionTerminated" ->
            [child EXCEPT !.status = "terminated", !.ended = event.occured]
      [] event.type = "ChildWorkflowExecutionTimedOut" ->
            [child EXCEPT !.status = "terminated", !.ended = event.occured]

\* execution = self._child_executions[event.execution_initiated_event_id],
\* then field assignments.
ChildFollowUp(event) ==
    /\ Building
    /\ IF event.execution_initiated_event_id \notin DOMAIN _child_executions
       THEN Raise(event, "KeyError")
       ELSE /\ childObjs' = [childObjs EXCEPT
                    ![_child_executions[event.execution_initiated_event_id]] =
                        ChildUpdated(@, event)]
            /\ Processed(event)
            /\ UNCHANGED <<execution, taskObjs, timerObjs, _tasks,
                           _child_executions, _child_execution_initiation_events,
                           _timers, _latest_decision_event_id>>

ChildWorkflowExecutionCompletedEvent(event) == ChildFollowUp(event)
ChildWorkflowExecutionFailedEvent(event) == ChildFollowUp(event)
ChildWorkflowExecutionCancelledEvent(event) == ChildFollowUp(event)
ChildWorkflowExecutionTerminatedEvent(event) == ChildFollowUp(event)
ChildWorkflowExecutionTimedOutEvent(event) == ChildFollowUp(event)

(***************************************************************************)
(* Timer events.                                                           *)
(***************************************************************************)
TimerIds == {"m1"}
Durations == {"60"}

TimerState(id, duraction, started, decider_control) ==
    [id |-> id, status |-> "started", duraction |-> duraction,
     started |-> started, ended |-> None, input |-> None,
     decider_control |-> decider_control]

TimerStartedEvents ==
    [type : {"TimerStarted"}, id : {NextId}, occured : {Occured(NextId)},
     timer_id : TimerIds, timer_duration : Durations, control : Controls]
TimerFiredEvents ==
    [type : {"TimerFired"}, id : {NextId}, occured : {Occured(NextId)},
     timer_started_event_id : EventIds]
TimerCancelledEvents ==
    [type : {"TimerCancelled"}, id : {NextId}, occured : {Occured(NextId)},
     timer_started_event_id : EventIds]

TimerStartedEvent(event) ==
    /\ Building
    /\ IF execution = Unset
       THEN Raise(event, "AttributeError")
       ELSE /\ timerObjs' = Append(timerObjs,
                    TimerState(event.timer_id, event.timer_duration,
                               event.occured, event.control))
            /\ execution' = [execution EXCEPT
                                !.timers = Append(@, Len(timerObjs) + 1)]
            /\ _timers' = (event.id :> (Len(timerObjs) + 1)) @@ _timers
            /\ Processed(event)
            /\ UNCHANGED <<taskObjs, childObjs, _tasks, _child_executions,
                           _child_execution_initiation_events,
                           _latest_decision_event_id>>

\* Fields a timer follow-up event sets on the timer it refers to (lines 278-283).
TimerUpdated(timer, event) ==
    CASE event.type = "TimerFired" ->
            [timer EXCEPT !.status = "fired", !.ended = event.occured]
      [] event.type = "TimerCancelled" ->
            [timer EXCEPT !.status = "cancelled", !.ended = event.occured]

\* Mutant: the timer is looked up by its caller-assigned id, so the first
\* timer carrying the id of the one referred to is updated.
TimerFollowUpByTimerId(event) ==
    /\ Building
    /\ IF event.timer_started_event_id \notin DOMAIN _timers
       THEN Raise(event, "KeyError")
       ELSE /\ LET id == timerObjs[_timers[event.timer_started_event_id]].id
                   first == CHOOSE k \in 1..Len(timerObjs) :
                                /\ timerObjs[k].id = id
                                /\ \A j \in 1..(k - 1) : timerObjs[j].id # id
               IN  timerObjs' = [timerObjs EXCEPT
                                    ![first] = TimerUpdated(@, event)]
            /\ Processed(event)
            /\ UNCHANGED <<execution, taskObjs, childObjs, _tasks,
                           _child_executions, _child_execution_initiation_events,
                           _timers, _latest_decision_event_id>>

\* timer = self._timers[event.timer_started_event_id], then field assignments.
TimerFollowUp(event) ==
    /\ Building
    /\ IF event.timer_started_event_id \notin DOMAIN _timers
       THEN Raise(event, "KeyError")
       ELSE /\ timerObjs' = [timerObjs EXCEPT
                    ![_timers[event.timer_started_event_id]] = TimerUpdated(@, event)]
            /\ Processed(event)
            /\ UNCHANGED <<execution, taskObjs, childObjs, _tasks,
                           _child_executions, _child_execution_initiation_events,
                           _timers, _latest_decision_event_id>>

TimerFiredEvent(event) == TimerFollowUp(event)
TimerCancelledEvent(event) == TimerFollowUp(event)

(***************************************************************************)
(* Decision and signal events.                                             *)
(***************************************************************************)
SignalNames == {"A"}

DecisionTaskCompletedEvents ==
    [type : {"DecisionTaskCompleted"}, id : {NextId}, occured : {Occured(NextId)}]
WorkflowExecutionSignaledEvents ==
    [type : {"WorkflowExecutionSignaled"}, id : {NextId},
     occured : {Occured(NextId)}, signal_name : SignalNames,
     signal_input : Inputs]
\* A variant no branch of _process_event matches.
DecisionTaskScheduledEvents ==
    [type : {"DecisionTaskScheduled"}, id : {NextId}, occured : {Occured(NextId)}]

\* Mutant: the branch touches the snapshot, as the branches around it do,
\* and fails while there is none.
DecisionTaskCompletedNeedingExecution(event) ==
    /\ Building
    /\ IF execution = Unset
       THEN Raise(event, "AttributeError")
       ELSE /\ _latest_decision_event_id' = {event.id}
            /\ Processed(event)
            /\ UNCHANGED <<execution, taskObjs, childObjs, timerObjs, _tasks,
                           _child_executions, _child_execution_initiation_events,
                           _timers>>

DecisionTaskCompletedEvent(event) ==
    /\ Building
    /\ _latest_decision_event_id' = {event.id}
    /\ Processed(event)
    /\ UNCHANGED <<execution, taskObjs, childObjs, timerObjs, _tasks,
                   _child_executions, _child_execution_initiation_events, _timers>>

\* The signal a signal event creates; latest_decision_event_id is the local
\* variable the is_new closure keeps (lines 287-295).
SignalState(event, latest_decision_event_id) ==
    [name |-> event.signal_name, received |-> event.occured,
     latest_decision_event_id |-> latest_decision_event_id,
     input |-> event.signal_input]

\* Mutant: the closure compares the id it kept with itself.
is_newAtReceipt(signal) ==
    signal.latest_decision_event_id = signal.latest_decision_event_id

\* signal.is_new(): the closure compares the id it kept with the builder's
\* attribute as it is when called.
is_new(signal) == {signal.latest_decision_event_id} = _latest_decision_event_id

WorkflowExecutionSignaledEvent(event) ==
    /\ Building
    /\ IF _latest_decision_event_id = {} \/ execution = Unset
       THEN Raise(event, "AttributeError")
       ELSE /\ execution' = [execution EXCEPT !.signals = Append(@,
                    SignalState(event,
                        CHOOSE id \in _latest_decision_event_id : TRUE))]
            /\ Processed(event)
            /\ UNCHANGED <<taskObjs, childObjs, timerObjs, _tasks,
                           _child_executions, _child_execution_initiation_events,
                           _timers, _latest_decision_event_id>>

\* Mutant: the chain of isinstance tests ends in an else that rejects the
\* event.
DecisionTaskScheduledRejected(event) ==
    /\ Building
    /\ Raise(event, "TypeError")

DecisionTaskScheduledEvent(event) ==
    /\ Building
    /\ Processed(event)
    /\ UNCHANGED builderVars

(***************************************************************************)
(* The iterable is exhausted: build() returns and build_state returns      *)
(* builder.execution, which fails while the attribute is unset.            *)
(***************************************************************************)
Exhausted ==
    /\ Building
    /\ execution_history = <<>>
    /\ IF execution = Unset
       THEN pc' = "raised_at_return" /\ error' = "AttributeError"
       ELSE pc' = "returned" /\ error' = "none"
    /\ UNCHANGED history
    /\ UNCHANGED builderVars
    /\ UNCHANGED other
    /\ UNCHANGED pagerVars
    /\ UNCHANGED <<execution_history, utilVars, moreVars>>

(***************************************************************************)
(* The snapshot as the caller reads it.                                    *)
(***************************************************************************)
Tasks == [i \in 1..Len(execution.tasks) |-> taskObjs[execution.tasks[i]]]
ChildExecutions ==
    [i \in 1..Len(execution.child_executions) |->
        childObjs[execution.child_executions[i]]]
Timers == [i \in 1..Len(execution.timers) |-> timerObjs[execution.timers[i]]]

(***************************************************************************)
(* Two build_state calls in flight.  Each call makes its own _StateBuilder *)
(* (line 305), whose tables and snapshot are instance attributes (lines    *)
(* 119-124, 136) and whose lists come from default factories (lines        *)
(* 95-100).  When the histories are lazy iterables and the calls run in    *)
(* two threads, the scheduler switches between them from event to event.   *)
(***************************************************************************)
\* The call that is running, as a record.
Running ==
    [history |-> history, pc |-> pc, error |-> error,
     execution |-> execution, taskObjs |-> taskObjs, childObjs |-> childObjs,
     timerObjs |-> timerObjs, _tasks |-> _tasks,
     _child_executions |-> _child_executions,
     _child_execution_initiation_events |-> _child_execution_initiation_events,
     _timers |-> _timers,
     _latest_decision_event_id |-> _latest_decision_event_id]

\* Mutant: _latest_decision_event_id is an attribute of the class, one for
\* all builders.
SwitchSharingLatestDecision ==
    /\ other' = [Running EXCEPT
                    !._latest_decision_event_id = other._latest_decision_event_id]
    /\ history' = other.history
    /\ pc' = other.pc
    /\ error' = other.error
    /\ execution' = other.execution
    /\ taskObjs' = other.taskObjs
    /\ childObjs' = other.childObjs
    /\ timerObjs' = other.timerObjs
    /\ _tasks' = other._tasks
    /\ _child_executions' = other._child_executions
    /\ _child_execution_initiation_events' =
            other._child_execution_initiation_events
    /\ _timers' = other._timers
    /\ UNCHANGED _latest_decision_event_id
    /\ UNCHANGED pagerVars
    /\ UNCHANGED <<execution_history, utilVars, moreVars>>

\* The scheduler suspends the running call and resumes the other one.
Switch ==
    /\ other' = Running
    /\ history' = other.history
    /\ pc' = other.pc
    /\ error' = other.error
    /\ execution' = other.execution
    /\ taskObjs' = other.taskObjs
    /\ childObjs' = other.childObjs
    /\ timerObjs' = other.timerObjs
    /\ _tasks' = other._tasks
    /\ _child_executions' = other._child_executions
    /\ _child_execution_initiation_events' =
            other._child_execution_initiation_events
    /\ _timers' = other._timers
    /\ _latest_decision_event_id' = other._latest_decision_event_id
    /\ UNCHANGED pagerVars
    /\ UNCHANGED <<execution_history, utilVars, moreVars>>

(***************************************************************************)
(* _process_event as a function of one call's state: what the call b is    *)
(* after its loop has handed it the event, when no other call exists.      *)
(***************************************************************************)
ProcessEvent(b, event) ==
    LET raised(exception) ==
            [b EXCEPT !.history = Append(@, event), !.pc = "raised",
                      !.error = exception]
        processed(c) == [c EXCEPT !.history = Append(@, event)]
    IN  CASE event.type = "DecisionTaskCompleted" ->
                processed([b EXCEPT !._latest_decision_event_id = {event.id}])
          [] event.type = "WorkflowExecutionStarted" ->
                processed([b EXCEPT !.execution =
                    ExecutionState(event.execution_configuration,
                                   event.occured, event.execution_input)])
          [] event.type \in {"WorkflowExecutionCompleted",
                             "WorkflowExecutionFailed",
                             "WorkflowExecutionCancelled",
                             "WorkflowExecutionTerminated",
                             "WorkflowExecutionTimedOut"} ->
                IF b.execution = Unset
                THEN raised("AttributeError")
                ELSE processed([b EXCEPT
                        !.execution = ExecutionClosed(@, event)])
          [] event.type = "WorkflowExecutionCancelRequested" ->
                IF b.execution = Unset
                THEN raised("AttributeError")
                ELSE processed([b EXCEPT !.execution.cancel_requested = TRUE])
          [] event.type = "ActivityTaskScheduled" ->
                IF b.execution = Unset
                THEN raised("AttributeError")
                ELSE processed([b EXCEPT
                        !.taskObjs = Append(@,
                            TaskState(event.task_id, event.activity,
                                      event.task_configuration, event.occured,
                                      event.task_input, event.control)),
                        !.execution.tasks = Append(@, Len(b.taskObjs) + 1),
                        !._tasks = (event.id :> (Len(b.taskObjs) + 1)) @@ @])
          [] event.type \in {"ActivityTaskStarted", "ActivityTaskCompleted",
                             "ActivityTaskFailed", "ActivityTaskCancelled",
                             "ActivityTaskTimedOut"} ->
                IF event.task_scheduled_event_id \notin DOMAIN b._tasks
                THEN raised("KeyError")
                ELSE processed([b EXCEPT
                        !.taskObjs[b._tasks[event.task_scheduled_event_id]] =
                            TaskUpdated(@, event)])
          [] event.type = "ActivityTaskCancelRequested" ->
                IF b.execution = Unset
                THEN raised("AttributeError")
                ELSE LET tasks == {i \in 1..Len(b.execution.tasks) :
                            b.taskObjs[b.execution.tasks[i]].id = event.task_id}
                     IN  IF Cardinality(tasks) # 1
                         THEN raised("LookupError")
                         ELSE processed([b EXCEPT
                                !.taskObjs[b.execution.tasks[
                                    CHOOSE i \in tasks : TRUE]].cancel_requested
                                        = TRUE])
          [] event.type = "StartChildWorkflowExecutionInitiated" ->
                processed([b EXCEPT
                    !._child_execution_initiation_events = Append(@, event)])
          [] event.type = "ChildWorkflowExecutionStarted" ->
                LET events == {i \in 1..Len(b._child_execution_initiation_events) :
                        b._child_execution_initiation_events[i].id =
                            event.execution_initiated_event_id}
                IN  IF Cardinality(events) # 1
                    THEN raised("LookupError")
                    ELSE IF b.execution = Unset
                    THEN raised("AttributeError")
                    ELSE LET initiation_event ==
                                b._child_execution_initiation_events[
                                    CHOOSE i \in events : TRUE]
                         IN  processed([b EXCEPT
                                !.childObjs = Append(@,
                                    ChildStarted(initiation_event, event)),
                                !.execution.child_executions =
                                    Append(@, Len(b.childObjs) + 1),
                                !._child_executions =
                                    (ChildRegistrationKey(initiation_event, event)
                                        :> (Len(b.childObjs) + 1)) @@ @])
          [] event.type \in {"ChildWorkflowExecutionCompleted",
                             "ChildWorkflowExecutionFailed",
                             "ChildWorkflowExecutionCancelled",
                             "ChildWorkflowExecutionTerminated",
                             "ChildWorkflowExecutionTimedOut"} ->
                IF event.execution_initiated_event_id
                        \notin DOMAIN b._child_executions
                THEN raised("KeyError")
                ELSE processed([b EXCEPT
                        !.childObjs[b._child_executions[
                            event.execution_initiated_event_id]] =
                                ChildUpdated(@, event)])
          [] event.type = "TimerStarted" ->
                IF b.execution = Unset
                THEN raised("AttributeError")
                ELSE processed([b EXCEPT
                        !.timerObjs = Append(@,
                            TimerState(event.timer_id, event.timer_duration,
                                       event.occured, event.control)),
                        !.execution.timers = Append(@, Len(b.timerObjs) + 1),
                        !._timers = (event.id :> (Len(b.timerObjs) + 1)) @@ @])
          [] event.type \in {"TimerFired", "TimerCancelled"} ->
                IF event.timer_started_event_id \notin DOMAIN b._timers
                THEN raised("KeyError")
                ELSE processed([b EXCEPT
                        !.timerObjs[b._timers[event.timer_started_event_id]] =
                            TimerUpdated(@, event)])
          [] event.type = "WorkflowExecutionSignaled" ->
                IF b._latest_decision_event_id = {} \/ b.execution = Unset
                THEN raised("AttributeError")
                ELSE processed([b EXCEPT
                        !.execution.signals = Append(@, SignalState(event,
                            CHOOSE id \in b._latest_decision_event_id : TRUE))])
          [] OTHER -> processed(b)

\* build(): the loop over the events of h, left at the first exception.
RECURSIVE build(_)
build(h) ==
    IF h = <<>>
    THEN NewCall
    ELSE LET b == build(SubSeq(h, 1, Len(h) - 1))
         IN  IF b.pc = "building" THEN ProcessEvent(b, h[Len(h)]) ELSE b

\* build_state(h): the fold, then the read of builder.execution.
build_state(h) ==
    LET b == build(h)
    IN  IF b.pc # "building"
        THEN b
        ELSE IF b.execution = Unset
        THEN [b EXCEPT !.pc = "raised_at_return", !.error = "AttributeError"]
        ELSE [b EXCEPT !.pc = "returned"]

(***************************************************************************)
(* iter_paged and PageConsumer.                                            *)
(*                                                                         *)
(* The paginated method serves a chain of pages: called without a token it *)
(* returns the first page, called with a page's nextPageToken the page     *)
(* after it; the last page carries no token.  The items are the dicts      *)
(* {"x": 1}, {"x": 2}, ... numbered through the chain, the results key is  *)
(* "foo" and the model is lambda x: x["x"], as in test_iter_paged.         *)
(***************************************************************************)
\* Number of items on the pages before page k, for pages of the given sizes.
RECURSIVE ItemsBefore(_, _)
ItemsBefore(sizes, k) ==
    IF k = 1 THEN 0 ELSE ItemsBefore(sizes, k - 1) + sizes[k - 1]

\* The chain of pages with the given sizes.
PagesOfSizes(sizes) ==
    [k \in 1..Len(sizes) |->
        [j \in 1..sizes[k] |-> [x |-> ItemsBefore(sizes, k) + j]]]

\* Chains of one to MaxPages pages of zero to MaxPageItems items each.
PageChains ==
    {PagesOfSizes(sizes) :
        sizes \in UNION {[1..n -> 0..MaxPageItems] : n \in 1..MaxPages}}

\* The token that leads to page k.
Token(k) == IF k = 1 THEN None ELSE "page-" \o ToString(k)

\* The paginated method: the response for the given token.
api_call(nextPageToken) ==
    LET k == CHOOSE k \in 1..Len(pages) : Token(k) = nextPageToken
    IN  [foo |-> pages[k],
         nextPageToken |-> IF k < Len(pages) THEN Token(k + 1) ELSE None]

\* model: lambda x: x["x"]
model(item) == item.x

\* PageConsumer._items of a response: response.get(data_key) or []
_items(r) == r.foo

\* executor.submit(self.api_call, nextPageToken=...): the work item is queued
\* and its future returned.
Submitted(nextPageToken) ==
    [nextPageToken |-> nextPageToken, state |-> "pending", result |-> Unset]

\* iter_paged: the executor is made, the method is called at once without a
\* token and the consumer is made from its response.
iter_paged ==
    /\ ipc = "not_called"
    /\ futures' = <<>>
    /\ calls' = Append(calls, None)
    /\ response' = api_call(None)
    /\ _i' = 0
    /\ _future' = {}
    /\ ipc' = "ready"
    /\ UNCHANGED <<pages, yielded>>
    /\ UNCHANGED callVars
    /\ UNCHANGED other
    /\ UNCHANGED <<execution_history, utilVars, moreVars>>

\* send (next) up to its return, its StopIteration, or its wait in
\* self._future.result().
send ==
    /\ ipc = "ready"
    /\ LET first == /\ _i = 0
                    /\ _future = {}
                    /\ response.nextPageToken # None
           submitted == IF first
                        THEN Append(futures, Submitted(response.nextPageToken))
                        ELSE futures
           future == IF first THEN {Len(submitted)} ELSE _future
       IN  IF _i >= Len(_items(response))
           THEN IF future = {}
                THEN /\ ipc' = "stopped"
                     /\ UNCHANGED <<response, _i, _future, futures, yielded>>
                ELSE /\ ipc' = "in_result"
                     /\ futures' = submitted
                     /\ _future' = future
                     /\ UNCHANGED <<response, _i, yielded>>
           ELSE /\ yielded' = Append(yielded, model(_items(response)[_i + 1]))
                /\ _i' = _i + 1
                /\ futures' = submitted
                /\ _future' = future
                /\ UNCHANGED <<ipc, response>>
    /\ UNCHANGED <<pages, calls>>
    /\ UNCHANGED callVars
    /\ UNCHANGED other
    /\ UNCHANGED <<execution_history, utilVars, moreVars>>

\* Mutant: the next fetch is submitted with the token of the page just
\* consumed, read before the response is replaced.
send_receiveStaleToken ==
    /\ ipc = "in_result"
    /\ \E f \in _future :
        /\ futures[f].state = "finished"
        /\ LET received == futures[f].result
           IN  /\ response' = received
               /\ IF response.nextPageToken # None
                  THEN /\ futures' = Append(futures,
                                        Submitted(response.nextPageToken))
                       /\ _future' = {Len(futures) + 1}
                  ELSE /\ _future' = {}
                       /\ UNCHANGED futures
               /\ IF Len(_items(received)) = 0
                  THEN /\ ipc' = "raised"
                       /\ _i' = 0
                       /\ UNCHANGED yielded
                  ELSE /\ yielded' = Append(yielded, model(_items(received)[1]))
                       /\ _i' = 1
                       /\ ipc' = "ready"
    /\ UNCHANGED <<pages, calls>>
    /\ UNCHANGED callVars
    /\ UNCHANGED other
    /\ UNCHANGED <<execution_history, utilVars, moreVars>>

\* The rest of send once the future has its result (lines 116-129): the
\* page is received, the fetch of the page after it is submitted, and the
\* first item of the page is returned; indexing a page without items raises
\* IndexError.
send_receive ==
    /\ ipc = "in_result"
    /\ \E f \in _future :
        /\ futures[f].state = "finished"
        /\ LET received == futures[f].result
           IN  /\ response' = received
               /\ IF received.nextPageToken # None
                  THEN /\ futures' = Append(futures,
                                        Submitted(received.nextPageToken))
                       /\ _future' = {Len(futures) + 1}
                  ELSE /\ _future' = {}
                       /\ UNCHANGED futures
               /\ IF Len(_items(received)) = 0
                  THEN /\ ipc' = "raised"
                       /\ _i' = 0
                       /\ UNCHANGED yielded
                  ELSE /\ yielded' = Append(yielded, model(_items(received)[1]))
                       /\ _i' = 1
                       /\ ipc' = "ready"
    /\ UNCHANGED <<pages, calls>>
    /\ UNCHANGED callVars
    /\ UNCHANGED other
    /\ UNCHANGED <<execution_history, utilVars, moreVars>>

\* The executor's worker thread (max_workers=1) takes the oldest pending
\* work item and calls the paginated method with its token.
worker_call ==
    /\ \A f \in 1..Len(futures) : futures[f].state # "running"
    /\ \E f \in 1..Len(futures) :
        /\ futures[f].state = "pending"
        /\ \A g \in 1..(f - 1) : futures[g].state # "pending"
        /\ futures' = [futures EXCEPT ![f].state = "running"]
        /\ calls' = Append(calls, futures[f].nextPageToken)
    /\ UNCHANGED <<pages, ipc, response, _i, _future, yielded>>
    /\ UNCHANGED callVars
    /\ UNCHANGED other
    /\ UNCHANGED <<execution_history, utilVars, moreVars>>

\* Mutant: when a fetched page has a token the worker goes on to fetch the
\* page after it.
worker_returnChaining ==
    /\ \E f \in 1..Len(futures) :
        /\ futures[f].state = "running"
        /\ LET result == api_call(futures[f].nextPageToken)
               finished == [futures EXCEPT ![f].state = "finished",
                                           ![f].result = result]
           IN  futures' = IF result.nextPageToken # None
                          THEN Append(finished, Submitted(result.nextPageToken))
                          ELSE finished
    /\ UNCHANGED <<pages, ipc, response, _i, _future, calls, yielded>>
    /\ UNCHANGED callVars
    /\ UNCHANGED other
    /\ UNCHANGED <<execution_history, utilVars, moreVars>>

\* The paginated method returns in the worker thread: the future has its
\* result.
worker_return ==
    /\ \E f \in 1..Len(futures) :
        /\ futures[f].state = "running"
        /\ futures' = [futures EXCEPT
                ![f].state = "finished",
                ![f].result = api_call(futures[f].nextPageToken)]
    /\ UNCHANGED <<pages, ipc, response, _i, _future, calls, yielded>>
    /\ UNCHANGED callVars
    /\ UNCHANGED other
    /\ UNCHANGED <<execution_history, utilVars, moreVars>>

(***************************************************************************)
(* Specifications.  Spec folds histories made of every event variant;      *)
(* the others fold longer histories of one family of variants.             *)
(***************************************************************************)
Within(bound) == Len(history) < bound

ExecutionEvents(bound) ==
    \/ \E event \in WorkflowExecutionStartedEvents :
            Within(bound) /\ WorkflowExecutionStartedEvent(event)
    \/ \E event \in WorkflowExecutionCompletedEvents :
            Within(bound) /\ WorkflowExecutionCompletedEvent(event)
    \/ \E event \in WorkflowExecutionFailedEvents :
            Within(bound) /\ WorkflowExecutionFailedEvent(event)
    \/ \E event \in WorkflowExecutionCancelledEvents :
            Within(bound) /\ WorkflowExecutionCancelledEvent(event)
    \/ \E event \in WorkflowExecutionTerminatedEvents :
            Within(bound) /\ WorkflowExecutionTerminatedEvent(event)
    \/ \E event \in WorkflowExecutionTimedOutEvents :
            Within(bound) /\ WorkflowExecutionTimedOutEvent(event)
    \/ \E event \in WorkflowExecutionCancelRequestedEvents :
            Within(bound) /\ WorkflowExecutionCancelRequestedEvent(event)

TaskEvents(bound) ==
    \/ \E event \in ActivityTaskScheduledEvents :
            Within(bound) /\ ActivityTaskScheduledEvent(event)
    \/ \E event \in ActivityTaskStartedEvents :
            Within(bound) /\ ActivityTaskStartedEvent(event)
    \/ \E event \in ActivityTaskCompletedEvents :
            Within(bound) /\ ActivityTaskCompletedEvent(event)
    \/ \E event \in ActivityTaskFailedEvents :
            Within(bound) /\ ActivityTaskFailedEvent(event)
    \/ \E event \in ActivityTaskCancelledEvents :
            Within(bound) /\ ActivityTaskCancelledEvent(event)
    \/ \E event \in ActivityTaskTimedOutEvents :
            Within(bound) /\ ActivityTaskTimedOutEvent(event)
    \/ \E event \in ActivityTaskCancelRequestedEvents :
            Within(bound) /\ ActivityTaskCancelRequestedEvent(event)

ChildEvents(bound) ==
    \/ \E event \in StartChildWorkflowExecutionInitiatedEvents :
            Within(bound) /\ StartChildWorkflowExecutionInitiatedEvent(event)
    \/ \E event \in ChildWorkflowExecutionStartedEvents :
            Within(bound) /\ ChildWorkflowExecutionStartedEvent(event)
    \/ \E event \in ChildWorkflowExecutionCompletedEvents :
            Within(bound) /\ ChildWorkflowExecutionCompletedEvent(event)
    \/ \E event \in ChildWorkflowExecutionFailedEvents :
            Within(bound) /\ ChildWorkflowExecutionFailedEvent(event)
    \/ \E event \in ChildWorkflowExecutionCancelledEvents :
            Within(bound) /\ ChildWorkflowExecutionCancelledEvent(event)
    \/ \E event \in ChildWorkflowExecutionTerminatedEvents :
            Within(bound) /\ ChildWorkflowExecutionTerminatedEvent(event)
    \/ \E event \in ChildWorkflowExecutionTimedOutEvents :
            Within(bound) /\ ChildWorkflowExecutionTimedOutEvent(event)

TimerEvents(bound) ==
    \/ \E event \in TimerStartedEvents :
            Within(bound) /\ TimerStartedEvent(event)
    \/ \E event \in TimerFiredEvents :
            Within(bound) /\ TimerFiredEvent(event)
    \/ \E event \in TimerCancelledEvents :
            Within(bound) /\ TimerCancelledEvent(event)

DecisionEvents(bound) ==
    \/ \E event \in DecisionTaskCompletedEvents :
            Within(bound) /\ DecisionTaskCompletedEvent(event)
    \/ \E event \in DecisionTaskScheduledEvents :
            Within(bound) /\ DecisionTaskScheduledEvent(event)

SignalEvents(bound) ==
    \E event \in WorkflowExecutionSignaledEvents :
            Within(bound) /\ WorkflowExecutionSignaledEvent(event)

Next ==
    \/ ExecutionEvents(MaxEvents)
    \/ TaskEvents(MaxEvents)
    \/ ChildEvents(MaxEvents)
    \/ TimerEvents(MaxEvents)
    \/ DecisionEvents(MaxEvents)
    \/ SignalEvents(MaxEvents)
    \/ Exhausted

Spec == Init /\ [][Next]_vars

\* Histories of the execution-started event and activity task events.
NextTasks ==
    \/ \E event \in WorkflowExecutionStartedEvents :
            Within(MaxTaskEvents) /\ WorkflowExecutionStartedEvent(event)
    \/ TaskEvents(MaxTaskEvents)
    \/ Exhausted

SpecTasks == Init /\ [][NextTasks]_vars

\* Histories of execution events, with timer events in between.
NextExecution ==
    \/ ExecutionEvents(MaxExecutionEvents)
    \/ TimerEvents(MaxExecutionEvents)
    \/ Exhausted

SpecExecution == Init /\ [][NextExecution]_vars

\* Histories of the execution-started event, decision and signal events.
NextSignals ==
    \/ \E event \in WorkflowExecutionStartedEvents :
            Within(MaxSignalEvents) /\ WorkflowExecutionStartedEvent(event)
    \/ DecisionEvents(MaxSignalEvents)
    \/ SignalEvents(MaxSignalEvents)
    \/ Exhausted

SpecSignals == Init /\ [][NextSignals]_vars

\* Histories of the execution-started event and child execution events.
NextChildren ==
    \/ \E event \in WorkflowExecutionStartedEvents :
            Within(MaxChildEvents) /\ WorkflowExecutionStartedEvent(event)
    \/ ChildEvents(MaxChildEvents)
    \/ Exhausted

SpecChildren == Init /\ [][NextChildren]_vars

\* Histories that mix the events creating a task, a child execution, a
\* timer and a signal with decisions and with the start and the end of the
\* execution, in any order.
NextMixed ==
    \/ \E event \in WorkflowExecutionStartedEvents :
            Within(MaxMixedEvents) /\ WorkflowExecutionStartedEvent(event)
    \/ \E event \in WorkflowExecutionCompletedEvents :
            Within(MaxMixedEvents) /\ WorkflowExecutionCompletedEvent(event)
    \/ \E event \in WorkflowExecutionFailedEvents :
            Within(MaxMixedEvents) /\ WorkflowExecutionFailedEvent(event)
    \/ \E event \in ActivityTaskScheduledEvents :
            Within(MaxMixedEvents) /\ ActivityTaskScheduledEvent(event)
    \/ \E event \in StartChildWorkflowExecutionInitiatedEvents :
            Within(MaxMixedEvents) /\ StartChildWorkflowExecutionInitiatedEvent(event)
    \/ \E event \in ChildWorkflowExecutionStartedEvents :
            Within(MaxMixedEvents) /\ ChildWorkflowExecutionStartedEvent(event)
    \/ \E event \in TimerStartedEvents :
            Within(MaxMixedEvents) /\ TimerStartedEvent(event)
    \/ DecisionEvents(MaxMixedEvents)
    \/ SignalEvents(MaxMixedEvents)
    \/ Exhausted

SpecMixed == Init /\ [][NextMixed]_vars

\* Histories of the events of one activity task run inside one execution.
NextScenario ==
    \/ \E event \in WorkflowExecutionStartedEvents :
            Within(MaxScenarioEvents) /\ WorkflowExecutionStartedEvent(event)
    \/ \E event \in ActivityTaskScheduledEvents :
            Within(MaxScenarioEvents) /\ ActivityTaskScheduledEvent(event)
    \/ \E event \in ActivityTaskStartedEvents :
            Within(MaxScenarioEvents) /\ ActivityTaskStartedEvent(event)
    \/ \E event \in ActivityTaskCompletedEvents :
            Within(MaxScenarioEvents) /\ ActivityTaskCompletedEvent(event)
    \/ \E event \in WorkflowExecutionCompletedEvents :
            Within(MaxScenarioEvents) /\ WorkflowExecutionCompletedEvent(event)
    \/ Exhausted

SpecScenario == Init /\ [][NextScenario]_vars

\* Two build_state calls interleaved event by event: histories of the
\* events that create tasks, children (by looking the initiation up), timers
\* and signals and of the event that decides signal freshness.
WithinReplays == Len(history) + Len(other.history) < MaxReplayEvents

NextReplays ==
    \/ \E event \in WorkflowExecutionStartedEvents :
            WithinReplays /\ WorkflowExecutionStartedEvent(event)
    \/ \E event \in ActivityTaskScheduledEvents :
            WithinReplays /\ ActivityTaskScheduledEvent(event)
    \/ \E event \in StartChildWorkflowExecutionInitiatedEvents :
            WithinReplays /\ StartChildWorkflowExecutionInitiatedEvent(event)
    \/ \E event \in ChildWorkflowExecutionStartedEvents :
            WithinReplays /\ ChildWorkflowExecutionStartedEvent(event)
    \/ \E event \in TimerStartedEvents :
            WithinReplays /\ TimerStartedEvent(event)
    \/ \E event \in DecisionTaskCompletedEvents :
            WithinReplays /\ DecisionTaskCompletedEvent(event)
    \/ \E event \in WorkflowExecutionSignaledEvents :
            WithinReplays /\ WorkflowExecutionSignaledEvent(event)
    \/ Exhausted
    \/ Switch

SpecReplays == Init /\ [][NextReplays]_vars

\* One iteration of iter_paged's consumer over a chain of pages, with the
\* executor's worker thread running beside it.
InitPaged ==
    /\ history = <<>>
    /\ pc = "building"
    /\ error = "none"
    /\ execution = Unset
    /\ taskObjs = <<>>
    /\ childObjs = <<>>
    /\ timerObjs = <<>>
    /\ _tasks = <<>>
    /\ _child_executions = <<>>
    /\ _child_execution_initiation_events = <<>>
    /\ _timers = <<>>
    /\ _latest_decision_event_id = {}
    /\ other = NewCall
    /\ pages \in PageChains
    /\ ipc = "not_called"
    /\ response = Unset
    /\ _i = 0
    /\ _future = {}
    /\ futures = <<>>
    /\ calls = <<>>
    /\ yielded = <<>>
    /\ execution_history = <<>>
    /\ requests = <<>>
    /\ socket_default_timeout = {}
    /\ contexts = <<>>
    /\ raising = "none"
    /\ timeout_data = NONE
    /\ parsed = Unset
    /\ NoWalk
    /\ NoWrapper
    /\ NoTask
    /\ NoForm
    /\ NoActivity

NextPaged ==
    \/ iter_paged
    \/ send
    \/ send_receive
    \/ worker_call
    \/ worker_return

SpecPaged == InitPaged /\ [][NextPaged]_vars

(***************************************************************************)
(* signal_execution (src/src/swf_typed/_executions.py): one request to the *)
(* SWF client, built from the arguments of the call.                       *)
(***************************************************************************)
MaxRequests == 2

Domains == {"d1"}
WorkflowIds == {"wf1", "wf2"}
RunIds == {"r1", "r2"}
\* input_: not given (None), the empty string, or data.
SignalInputs == {None, "", "x"}

CurrentExecutionId(id) == [class |-> "CurrentExecutionId", id |-> id]
ExecutionId(id, run_id) == [class |-> "ExecutionId", id |-> id, run_id |-> run_id]

ExecutionSpecifiers ==
    {CurrentExecutionId(id) : id \in WorkflowIds}
        \cup {ExecutionId(id, run_id) : id \in WorkflowIds, run_id \in RunIds}

\* Python's truth value of an optional string.
Truthy(value) == value # None /\ value # ""

\* No keyword arguments.
NoArguments == [name \in {} |-> None]

signal_execution(specifier, signal, domain, input_) ==
    LET kw == (IF specifier.class = "ExecutionId"
                THEN [runId |-> specifier.run_id] ELSE NoArguments)
              @@ (IF Truthy(input_) \/ input_ = ""
                    THEN [input |-> input_] ELSE NoArguments)
    IN  /\ requests' = Append(requests,
            [operation |-> "request_cancel_workflow_execution",
             kwargs |-> [domain |-> domain, workflowId |-> specifier.id,
                         signalName |-> signal] @@ kw])
        /\ UNCHANGED <<callVars, other, pagerVars, execution_history, moreVars>>
        /\ UNCHANGED <<socket_default_timeout, contexts, raising,
                       timeout_data, parsed>>

NextSignalExecution ==
    \E specifier \in ExecutionSpecifiers, signal \in SignalNames,
       domain \in Domains, input_ \in SignalInputs :
        /\ Len(requests) < MaxRequests
        /\ signal_execution(specifier, signal, domain, input_)

SpecSignalExecution == Init /\ [][NextSignalExecution]_vars

(***************************************************************************)
(* datetime.timedelta as the helpers use it: normalised to days and        *)
(* seconds of the day.                                                     *)
(***************************************************************************)
SecondsPerDay == 86400

timedelta(seconds) ==
    [days |-> seconds \div SecondsPerDay, seconds |-> seconds % SecondsPerDay]

total_seconds(delta) == delta.days * SecondsPerDay + delta.seconds

(***************************************************************************)
(* polling_socket_timeout (src/src/swf_typed/_common.py): a context        *)
(* manager around socket.setdefaulttimeout.  The contexts of one thread    *)
(* nest as their with statements do.                                       *)
(***************************************************************************)
MaxContexts == 3

\* The default of the timeout argument, in seconds.
DefaultPollingSeconds == 70

PollingTimeouts ==
    {timedelta(seconds) :
        seconds \in {DefaultPollingSeconds, 5, 0, -1, SecondsPerDay}}

\* socket.setdefaulttimeout rejects a negative timeout.
Settable(seconds) == seconds >= 0

\* with polling_socket_timeout(timeout): the generator runs up to its yield,
\* or its second statement raises and no context is entered.
polling_socket_timeout(timeout) ==
    /\ raising = "none"
    /\ IF Settable(total_seconds(timeout))
       THEN /\ contexts' = Append(contexts,
                    [timeout |-> timeout,
                     original_timeout_seconds |-> socket_default_timeout])
            /\ socket_default_timeout' = {total_seconds(timeout)}
            /\ UNCHANGED raising
       ELSE /\ raising' = "ValueError"
            /\ UNCHANGED <<contexts, socket_default_timeout>>
    /\ UNCHANGED <<callVars, other, pagerVars, execution_history, moreVars>>
    /\ UNCHANGED <<requests, timeout_data, parsed>>

\* Mutant: the restoring statement follows the yield without try/finally,
\* so an exception thrown into the generator skips it.
finallySkippedByException ==
    /\ contexts # <<>>
    /\ contexts' = SubSeq(contexts, 1, Len(contexts) - 1)
    /\ socket_default_timeout' =
            IF raising = "none"
            THEN Last(contexts).original_timeout_seconds
            ELSE socket_default_timeout
    /\ UNCHANGED raising
    /\ UNCHANGED <<callVars, other, pagerVars, execution_history, moreVars>>
    /\ UNCHANGED <<requests, timeout_data, parsed>>

\* The finally clause of the innermost context (lines 254-255): reached when
\* its body has returned and when an exception is on its way out, which
\* goes on travelling afterwards.
finally ==
    /\ contexts # <<>>
    /\ contexts' = SubSeq(contexts, 1, Len(contexts) - 1)
    /\ socket_default_timeout' = Last(contexts).original_timeout_seconds
    /\ UNCHANGED raising
    /\ UNCHANGED <<callVars, other, pagerVars, execution_history, moreVars>>
    /\ UNCHANGED <<requests, timeout_data, parsed>>

\* The body of the innermost context raises.
body_raises ==
    /\ contexts # <<>>
    /\ raising = "none"
    /\ raising' = "Exception"
    /\ UNCHANGED <<contexts, socket_default_timeout>>
    /\ UNCHANGED <<callVars, other, pagerVars, execution_history, moreVars>>
    /\ UNCHANGED <<requests, timeout_data, parsed>>

\* An except clause around the with statements that are still open, or
\* around all of them, catches the exception.
except ==
    /\ raising # "none"
    /\ raising' = "none"
    /\ UNCHANGED <<contexts, socket_default_timeout>>
    /\ UNCHANGED <<callVars, other, pagerVars, execution_history, moreVars>>
    /\ UNCHANGED <<requests, timeout_data, parsed>>

NextPolling ==
    \/ \E timeout \in PollingTimeouts :
            Len(contexts) < MaxContexts /\ polling_socket_timeout(timeout)
    \/ finally
    \/ body_raises
    \/ except

SpecPolling == Init /\ [][NextPolling]_vars

(***************************************************************************)
(* No build_state call and no PageConsumer: the state the helpers below    *)
(* start from.                                                             *)
(***************************************************************************)
NoCall ==
    /\ history = <<>>
    /\ pc = "building"
    /\ error = "none"
    /\ execution = Unset
    /\ taskObjs = <<>>
    /\ childObjs = <<>>
    /\ timerObjs = <<>>
    /\ _tasks = <<>>
    /\ _child_executions = <<>>
    /\ _child_execution_initiation_events = <<>>
    /\ _timers = <<>>
    /\ _latest_decision_event_id = {}
    /\ other = NewCall

NoConsumer ==
    /\ pages = <<>>
    /\ ipc = "not_called"
    /\ response = Unset
    /\ _i = 0
    /\ _future = {}
    /\ futures = <<>>
    /\ calls = <<>>
    /\ yielded = <<>>

(***************************************************************************)
(* parse_timeout (src/src/swf_typed/_common.py).  A string is the sequence *)
(* of its characters.                                                      *)
(***************************************************************************)
MaxDigits == 4

DigitCharacters == {"0", "1", "2", "3", "4", "5", "6", "7", "8", "9"}

DecimalStrings == UNION {[1..n -> DigitCharacters] : n \in 1..MaxDigits}

\* What SWF sends as a timeout.
TimeoutData == {NONE} \cup DecimalStrings

DigitValue(character) ==
    CASE character = "0" -> 0 [] character = "1" -> 1 [] character = "2" -> 2
      [] character = "3" -> 3 [] character = "4" -> 4 [] character = "5" -> 5
      [] character = "6" -> 6 [] character = "7" -> 7 [] character = "8" -> 8
      [] character = "9" -> 9

\* int(string) for a string of decimal digits.
RECURSIVE int(_)
int(string) ==
    IF Len(string) = 1
    THEN DigitValue(string[1])
    ELSE 10 * int(SubSeq(string, 1, Len(string) - 1)) + DigitValue(Last(string))

\* Mutant: the timeout is tested for truth, so zero seconds is no timeout.
parse_timeoutFalsyZero(data) ==
    IF data = NONE \/ int(data) = 0 THEN {} ELSE {timedelta(int(data))}

\* The returned value: {} for None, else {the timedelta}.
parse_timeout(data) ==
    IF data = NONE THEN {} ELSE {timedelta(int(data))}

\* A caller parses the timeout it was sent.
parse ==
    /\ parsed = Unset
    /\ parsed' = [returned |-> parse_timeout(timeout_data)]
    /\ UNCHANGED <<callVars, other, pagerVars, execution_history, moreVars>>
    /\ UNCHANGED <<requests, socket_default_timeout, contexts, raising,
                   timeout_data>>

InitParse ==
    /\ NoCall
    /\ NoConsumer
    /\ execution_history = <<>>
    /\ requests = <<>>
    /\ socket_default_timeout = {}
    /\ contexts = <<>>
    /\ raising = "none"
    /\ timeout_data \in TimeoutData
    /\ parsed = Unset
    /\ NoWalk
    /\ NoWrapper
    /\ NoTask
    /\ NoForm
    /\ NoActivity

NextParse == parse

SpecParse == InitParse /\ [][NextParse]_vars

(***************************************************************************)
(* build_state over a list given in full (src/src/swf_typed/_state.py):    *)
(* the events carry the ids SWF gave them, and the list holds them in any  *)
(* order, also one that is not the order of their ids.                     *)
(***************************************************************************)
MaxSuppliedEvents == 3

\* The events of one execution with two tasks, under their ids.
SuppliedEvents ==
    {[type |-> "WorkflowExecutionStarted", id |-> 1, occured |-> Occured(1),
      execution_configuration |-> "C1", execution_input |-> "x"],
     [type |-> "ActivityTaskScheduled", id |-> 2, occured |-> Occured(2),
      task_id |-> "t1", activity |-> "A1", task_configuration |-> "C1",
      task_input |-> "x", control |-> "k1"],
     [type |-> "ActivityTaskScheduled", id |-> 3, occured |-> Occured(3),
      task_id |-> "t2", activity |-> "A1", task_configuration |-> "C1",
      task_input |-> "x", control |-> "k1"],
     [type |-> "ActivityTaskStarted", id |-> 4, occured |-> Occured(4),
      task_scheduled_event_id |-> 2, worker_identity |-> "w1"],
     [type |-> "ActivityTaskCompleted", id |-> 5, occured |-> Occured(5),
      task_scheduled_event_id |-> 3, task_result |-> "ok"]}

\* The lists build_state is handed: each event at most once.
SuppliedHistories ==
    {h \in UNION {[1..n -> SuppliedEvents] : n \in 0..MaxSuppliedEvents} :
        \A i, j \in 1..Len(h) : i # j => h[i] # h[j]}

InitSupplied ==
    /\ NoCall
    /\ NoConsumer
    /\ execution_history \in SuppliedHistories
    /\ requests = <<>>
    /\ socket_default_timeout = {}
    /\ contexts = <<>>
    /\ raising = "none"
    /\ timeout_data = NONE
    /\ parsed = Unset
    /\ NoWalk
    /\ NoWrapper
    /\ NoTask
    /\ NoForm
    /\ NoActivity

\* The for statement of build() takes the iterator's next event, if it has
\* one, and hands it to _process_event.
Taken(type) ==
    IF execution_history = <<>>
    THEN {}
    ELSE {event \in {next(execution_history).event} : event.type = type}

NextSupplied ==
    \/ \E event \in Taken("WorkflowExecutionStarted") :
            WorkflowExecutionStartedEvent(event)
    \/ \E event \in Taken("ActivityTaskScheduled") :
            ActivityTaskScheduledEvent(event)
    \/ \E event \in Taken("ActivityTaskStarted") :
            ActivityTaskStartedEvent(event)
    \/ \E event \in Taken("ActivityTaskCompleted") :
            ActivityTaskCompletedEvent(event)
    \/ Exhausted

SpecSupplied == InitSupplied /\ [][NextSupplied]_vars

(***************************************************************************)
(* PageConsumer.get_page and PageConsumer.throw                            *)
(* (src/src/swf_typed/_common.py).  The caller's thread is in one call at  *)
(* a time: ipc is "in_get_page" while get_page waits in Future.result and  *)
(* "in_throw" while the send made by throw does.                           *)
(***************************************************************************)
MaxGetPageCalls == 2

\* The tokens a caller can hold: no token, and the tokens of the chain.
PageTokens == {Token(k) : k \in 1..Len(pages)}

\* What get_page returns for a response: the models of its items and its
\* next-page token.
Page(r) ==
    [models |-> [i \in 1..Len(_items(r)) |-> model(_items(r)[i])],
     token |-> r.nextPageToken]

\* Mutant: a page asked for by its token is always fetched by a call of
\* the paginated method, whether or not its fetch is in flight.
get_pageFetchingAgain(page_token, start_getting_next_page) ==
    /\ ipc = "ready"
    /\ IF page_token = None /\ _future = {}
       THEN /\ returned' = Append(returned, Page(response))
            /\ IF start_getting_next_page /\ response.nextPageToken # None
               THEN /\ futures' = Append(futures,
                                         Submitted(response.nextPageToken))
                    /\ _future' = {Len(futures) + 1}
               ELSE UNCHANGED <<futures, _future>>
            /\ UNCHANGED <<ipc, getting, calls>>
       ELSE /\ returned' = Append(returned, Page(api_call(page_token)))
            /\ calls' = Append(calls, page_token)
            /\ UNCHANGED <<ipc, getting, futures, _future>>
    /\ UNCHANGED <<pages, response, _i, yielded, thrown>>
    /\ UNCHANGED <<callVars, other, execution_history, utilVars>>
    /\ UNCHANGED <<wrapperVars, taskVars, formVars>>

\* get_page up to its return or its wait in self._future.result().
get_page(page_token, start_getting_next_page) ==
    /\ ipc = "ready"
    /\ IF page_token = None /\ _future = {}
       THEN \* Use pre-fetched first response
            /\ returned' = Append(returned, Page(response))
            /\ IF start_getting_next_page /\ response.nextPageToken # None
               THEN /\ futures' = Append(futures,
                                         Submitted(response.nextPageToken))
                    /\ _future' = {Len(futures) + 1}
               ELSE UNCHANGED <<futures, _future>>
            /\ UNCHANGED <<ipc, getting, calls>>
       ELSE IF /\ page_token # None
               /\ _future # {}
               /\ page_token = response.nextPageToken
       THEN \* Use in-flight response
            /\ ipc' = "in_get_page"
            /\ getting' = {[page_token |-> page_token,
                            start_getting_next_page |-> start_getting_next_page]}
            /\ UNCHANGED <<returned, futures, _future, calls>>
       ELSE \* the paginated method is called in the caller's thread, with
            \* the token or, for the first page, without one
            /\ returned' = Append(returned, Page(api_call(page_token)))
            /\ calls' = Append(calls, page_token)
            /\ UNCHANGED <<ipc, getting, futures, _future>>
    /\ UNCHANGED <<pages, response, _i, yielded, thrown>>
    /\ UNCHANGED <<callVars, other, execution_history, utilVars>>
    /\ UNCHANGED <<wrapperVars, taskVars, formVars>>

\* The rest of get_page once the future has its result (lines 171-188):
\* with start_getting_next_page the page becomes the consumer's current one
\* and the fetch of the page after it is submitted, if there is one after it.
get_page_receive ==
    /\ ipc = "in_get_page"
    /\ \E call \in getting, f \in _future :
        /\ futures[f].state = "finished"
        /\ LET received == futures[f].result
           IN  /\ returned' = Append(returned, Page(received))
               /\ IF call.start_getting_next_page
                  THEN /\ response' = received
                       /\ _i' = 0
                       /\ IF received.nextPageToken # None
                          THEN /\ futures' = Append(futures,
                                        Submitted(received.nextPageToken))
                               /\ _future' = {Len(futures) + 1}
                          ELSE UNCHANGED <<futures, _future>>
                  ELSE UNCHANGED <<response, _i, futures, _future>>
    /\ ipc' = "ready"
    /\ getting' = {}
    /\ UNCHANGED <<pages, calls, yielded, thrown>>
    /\ UNCHANGED <<callVars, other, execution_history, utilVars>>
    /\ UNCHANGED <<wrapperVars, taskVars, formVars>>

\* response.pop("nextPageToken", None)
pop(r) == [r EXCEPT !.nextPageToken = None]

\* throw up to its return, the exception of its send, or the wait of its
\* send in self._future.result(): the send of line 132, then lines 133-136.
throw ==
    /\ ipc = "ready"
    /\ thrown = "no"
    /\ LET first == /\ _i = 0
                    /\ _future = {}
                    /\ response.nextPageToken # None
           submitted == IF first
                        THEN Append(futures, Submitted(response.nextPageToken))
                        ELSE futures
           future == IF first THEN {Len(submitted)} ELSE _future
       IN  IF _i >= Len(_items(response))
           THEN IF future = {}
                THEN /\ thrown' = "StopIteration"
                     /\ UNCHANGED <<ipc, response, _i, _future, futures,
                                    yielded>>
                ELSE /\ ipc' = "in_throw"
                     /\ futures' = submitted
                     /\ _future' = future
                     /\ UNCHANGED <<response, _i, yielded, thrown>>
           ELSE /\ yielded' = Append(yielded, model(_items(response)[_i + 1]))
                /\ futures' = submitted
                /\ _future' = {}
                /\ response' = pop(response)
                /\ _i' = Len(_items(response))
                /\ thrown' = "returned"
                /\ UNCHANGED ipc
    /\ UNCHANGED <<pages, calls, getting, returned>>
    /\ UNCHANGED <<callVars, other, execution_history, utilVars>>
    /\ UNCHANGED <<wrapperVars, taskVars, formVars>>

\* The rest of throw once the future of its send has its result: the send
\* receives the page and submits the fetch of the page after it; when the
\* page has no items its IndexError leaves throw before line 133.
throw_receive ==
    /\ ipc = "in_throw"
    /\ \E f \in _future :
        /\ futures[f].state = "finished"
        /\ LET received == futures[f].result
           IN  /\ futures' = IF received.nextPageToken # None
                             THEN Append(futures,
                                         Submitted(received.nextPageToken))
                             ELSE futures
               /\ IF Len(_items(received)) = 0
                  THEN /\ thrown' = "IndexError"
                       /\ response' = received
                       /\ _i' = 0
                       /\ _future' = IF received.nextPageToken # None
                                     THEN {Len(futures) + 1}
                                     ELSE {}
                       /\ UNCHANGED yielded
                  ELSE /\ thrown' = "returned"
                       /\ yielded' = Append(yielded, model(_items(received)[1]))
                       /\ response' = pop(received)
                       /\ _i' = Len(_items(received))
                       /\ _future' = {}
    /\ ipc' = "ready"
    /\ UNCHANGED <<pages, calls, getting, returned>>
    /\ UNCHANGED <<callVars, other, execution_history, utilVars>>
    /\ UNCHANGED <<wrapperVars, taskVars, formVars>>

\* The consumer of a chain of pages, made by no call yet.
InitConsumer ==
    /\ NoCall
    /\ pages \in PageChains
    /\ ipc = "not_called"
    /\ response = Unset
    /\ _i = 0
    /\ _future = {}
    /\ futures = <<>>
    /\ calls = <<>>
    /\ yielded = <<>>
    /\ execution_history = <<>>
    /\ requests = <<>>
    /\ socket_default_timeout = {}
    /\ contexts = <<>>
    /\ raising = "none"
    /\ timeout_data = NONE
    /\ parsed = Unset
    /\ NoWalk
    /\ NoWrapper
    /\ NoTask
    /\ NoForm
    /\ NoActivity

\* The token of the next call of a walk through the pages: none at first,
\* then the token the previous call returned; no call after the last page.
WalkTokens ==
    IF returned = <<>>
    THEN {None}
    ELSE {Last(returned).token} \ {None}

\* A walk through all pages with get_page.
NextWalk ==
    \/ iter_paged
    \/ \E page_token \in WalkTokens, start_getting_next_page \in BOOLEAN :
            get_page(page_token, start_getting_next_page)
    \/ get_page_receive
    \/ worker_call
    \/ worker_return

SpecWalk == InitConsumer /\ [][NextWalk]_vars

\* get_page calls with any token, between the steps of an iteration.
NextInterleaved ==
    \/ iter_paged
    \/ send
    \/ send_receive
    \/ \E page_token \in PageTokens, start_getting_next_page \in BOOLEAN :
            /\ Len(returned) < MaxGetPageCalls
            /\ get_page(page_token, start_getting_next_page)
    \/ get_page_receive
    \/ worker_call
    \/ worker_return

SpecInterleaved == InitConsumer /\ [][NextInterleaved]_vars

\* An iteration with one throw in it, and the sends after it.
NextThrown ==
    \/ iter_paged
    \/ send
    \/ send_receive
    \/ throw
    \/ throw_receive
    \/ worker_call
    \/ worker_return

SpecThrown == InitConsumer /\ [][NextThrown]_vars


(***************************************************************************)
(* SwfError and ExceptionRedirectMethodWrapper                             *)
(* (src/src/swf_typed/_exceptions.py).  A class name or an error code is   *)
(* the sequence of its stem and its ending ("Error", "Exception" or        *)
(* "Fault"), so that name[-5:] == "Error" is Last(name) = "Error" and      *)
(* name[:-5] is the name without its last element.                         *)
(***************************************************************************)
ValidationError == <<"Validation", "Error">>
ValidationException == <<"Validation", "Exception">>

\* The subclasses of SwfError, in the order of their definition.
SwfErrorSubclasses ==
    << <<"AccessDenied", "Exception">>,
       <<"DefaultUndefined", "Fault">>,
       <<"DomainAlreadyExists", "Fault">>,
       <<"DomainDeprecated", "Fault">>,
       <<"InternalFailure", "Error">>,
       <<"InvalidClientTokenId", "Error">>,
       <<"InvalidParameterCombination", "Error">>,
       <<"InvalidParameterValue", "Error">>,
       <<"LimitExceeded", "Fault">>,
       <<"MissingAction", "Error">>,
       <<"NotAuthorized", "Error">>,
       <<"OperationNotPermitted", "Fault">>,
       <<"OptInRequired", "Error">>,
       <<"RequestExpired", "Error">>,
       <<"ServiceUnavailable", "Error">>,
       <<"Throttling", "Exception">>,
       <<"TooManyTags", "Fault">>,
       <<"TypeAlreadyExists", "Fault">>,
       <<"TypeDeprecated", "Fault">>,
       <<"UnknownResource", "Fault">>,
       ValidationError,
       <<"WorkflowExecutionAlreadyStarted", "Fault">> >>

\* Mutant: every class is registered under its name without "Error" only.
__init_subclass__StrippingAll(child_classes, cls) ==
    LET name == IF Last(cls) = "Error"
                THEN SubSeq(cls, 1, Len(cls) - 1)
                ELSE cls
    IN  (name :> cls) @@ child_classes

\* SwfError.__init_subclass__: the class is entered into _child_classes.
__init_subclass__(child_classes, cls) ==
    LET name == IF Last(cls) = "Error" /\ cls # ValidationError
                THEN SubSeq(cls, 1, Len(cls) - 1)
                ELSE cls
        registered == (name :> cls) @@ child_classes
    IN  IF name = ValidationError
        THEN (ValidationException :> cls) @@ registered
        ELSE registered

\* SwfError._child_classes once the first n subclasses are defined.
RECURSIVE ChildClassesAfter(_)
ChildClassesAfter(n) ==
    IF n = 0
    THEN [code \in {} |-> None]
    ELSE __init_subclass__(ChildClassesAfter(n - 1), SwfErrorSubclasses[n])

_child_classes == ChildClassesAfter(Len(SwfErrorSubclasses))

\* The error codes a ClientError can carry: the registered ones, the class
\* names themselves, and codes of no class.
ErrorCodes ==
    DOMAIN _child_classes
        \cup {SwfErrorSubclasses[n] : n \in 1..Len(SwfErrorSubclasses)}
        \cup {<<"Validation">>, <<"ResourceNotFound", "Exception">>,
              <<"Unknown", "Fault">>, <<"Error">>}

\* response["Error"].get("Message"): None when the response has none.
Messages == {"m1", "m2", None}

ClientErrors ==
    [type : {"ClientError"}, Code : ErrorCodes, Message : Messages]

\* What a call of the wrapped method does: it returns a value, or raises a
\* ClientError or another exception.
Methods ==
    [returns : {"r1", None}]
        \cup [raises : ClientErrors]
        \cup [raises : {[type |-> "ConnectionError"]}]

\* SwfError.from_botocore_exception: the exception of the registered class,
\* or _UnknownException.
from_botocore_exception(exception) ==
    LET code == exception.Code
    IN  IF code \in DOMAIN _child_classes
        THEN [type |-> _child_classes[code], args |-> exception.Message]
        ELSE [type |-> "_UnknownException", args |-> code]

\* ExceptionRedirectMethodWrapper.__call__
__call__ ==
    /\ _f # Unset
    /\ called = Unset
    /\ called' =
        IF "returns" \in DOMAIN _f
        THEN [returns |-> _f.returns]
        ELSE IF _f.raises.type = "ClientError"
        THEN LET new_exception == from_botocore_exception(_f.raises)
             IN  IF new_exception.type = "_UnknownException"
                 THEN [raises |-> _f.raises]
                 ELSE [raises |-> new_exception]
        ELSE [raises |-> _f.raises]
    /\ UNCHANGED <<callVars, other, pagerVars, execution_history, utilVars>>
    /\ UNCHANGED <<walkVars, _f, taskVars, formVars>>

InitWrapped ==
    /\ NoCall
    /\ NoConsumer
    /\ execution_history = <<>>
    /\ requests = <<>>
    /\ socket_default_timeout = {}
    /\ contexts = <<>>
    /\ raising = "none"
    /\ timeout_data = NONE
    /\ parsed = Unset
    /\ NoWalk
    /\ _f \in Methods
    /\ called = Unset
    /\ NoTask
    /\ NoForm
    /\ NoActivity

NextWrapped == __call__

SpecWrapped == InitWrapped /\ [][NextWrapped]_vars


(***************************************************************************)
(* DecisionTask (src/src/swf_typed/_decisions.py).  The history source is  *)
(* any iterable: a one-shot iterator, whose position is its own and moves  *)
(* with every event taken from it by anyone, or a list, of which every     *)
(* iter() starts a new pass.                                               *)
(***************************************************************************)
MaxHistoryEvents == 3
MaxReads == 2
MaxListedEvents == 6

\* The events of a task's history: only their identity matters here.
HistoryEvents(n) == [k \in 1..n |-> [id |-> k]]

HistorySources ==
    [kind : {"iterator", "list"},
     events : {HistoryEvents(n) : n \in 0..MaxHistoryEvents},
     position : {0}]

\* DecisionTask(token, execution, workflow, _execution_history_iter, ...):
\* __post_init__ makes the list empty.
InitTask ==
    /\ NoCall
    /\ NoConsumer
    /\ execution_history = <<>>
    /\ requests = <<>>
    /\ socket_default_timeout = {}
    /\ contexts = <<>>
    /\ raising = "none"
    /\ timeout_data = NONE
    /\ parsed = Unset
    /\ NoWalk
    /\ NoWrapper
    /\ _execution_history_iter \in HistorySources
    /\ _execution_history_list = <<>>
    /\ generator = {}
    /\ history_read = <<>>
    /\ NoForm
    /\ NoActivity

\* The property execution_history_iter is read: a new generator, whose for
\* statement iterates self._execution_history_iter.
execution_history_iter ==
    /\ _execution_history_iter # Unset
    /\ generator = {}
    /\ generator' = {[position |-> 0]}
    /\ UNCHANGED <<_execution_history_iter, _execution_history_list,
                   history_read>>
    /\ UNCHANGED <<callVars, other, pagerVars, execution_history, utilVars>>
    /\ UNCHANGED <<walkVars, wrapperVars, formVars>>

\* next() of the generator: the for statement takes the next event of the
\* source, appends it to the list and yields it; at the end of the source
\* the generator ends.
generator_next ==
    /\ \E frame \in generator :
        LET source == _execution_history_iter
            position == IF source.kind = "iterator"
                        THEN source.position
                        ELSE frame.position
        IN  IF position < Len(source.events)
            THEN /\ Len(_execution_history_list) < MaxListedEvents
                 /\ _execution_history_list' =
                        Append(_execution_history_list,
                               source.events[position + 1])
                 /\ IF source.kind = "iterator"
                    THEN /\ _execution_history_iter' =
                                [source EXCEPT !.position = position + 1]
                         /\ UNCHANGED generator
                    ELSE /\ generator' = {[position |-> position + 1]}
                         /\ UNCHANGED _execution_history_iter
            ELSE /\ generator' = {}
                 /\ UNCHANGED <<_execution_history_iter,
                                _execution_history_list>>
    /\ UNCHANGED history_read
    /\ UNCHANGED <<callVars, other, pagerVars, execution_history, utilVars>>
    /\ UNCHANGED <<walkVars, wrapperVars, formVars>>

\* list(self._execution_history_iter): what is left of an iterator, which
\* is then at its end, or the whole of a list.
list(source) ==
    IF source.kind = "iterator"
    THEN SubSeq(source.events, source.position + 1, Len(source.events))
    ELSE source.events

\* The property DecisionTask.execution_history is read.
DecisionTask_execution_history ==
    /\ _execution_history_iter # Unset
    /\ Len(history_read) < MaxReads
    /\ _execution_history_list' =
            _execution_history_list \o list(_execution_history_iter)
    /\ history_read' = Append(history_read, _execution_history_list')
    /\ _execution_history_iter' =
            IF _execution_history_iter.kind = "iterator"
            THEN [_execution_history_iter EXCEPT
                    !.position = Len(_execution_history_iter.events)]
            ELSE _execution_history_iter
    /\ UNCHANGED generator
    /\ UNCHANGED <<callVars, other, pagerVars, execution_history, utilVars>>
    /\ UNCHANGED <<walkVars, wrapperVars, formVars>>

NextTask ==
    \/ execution_history_iter
    \/ generator_next
    \/ DecisionTask_execution_history

SpecTask == InitTask /\ [][NextTask]_vars


(***************************************************************************)
(* PartialExecutionConfiguration (src/src/swf_typed/_executions.py).  API  *)
(* data is a dict: a function on the keys it holds.  Timeouts and          *)
(* priorities are strings that are parsed, so sequences of characters; an  *)
(* optional timedelta or int is {} for None and else the set of the value. *)
(***************************************************************************)
\* _common.unset, the default of the two timeouts.
unset == {Unset}

\* What SWF sends for the keys of an execution configuration.
ApiTimeouts == {NONE, <<"0">>, <<"6", "0">>}
ApiPriorities == {<<"0">>, <<"7">>}
ApiTaskLists == {[name |-> ""], [name |-> "tl1"]}
ApiRoles == {"", "arn1"}

\* The members of ChildExecutionTerminationPolicy under their values.
ChildExecutionTerminationPolicy ==
    [TERMINATE |-> "terminate", REQUEST_CANCEL |-> "request_cancel",
     ABANDON |-> "abandon"]

\* member.value
value(member) ==
    CHOOSE v \in DOMAIN ChildExecutionTerminationPolicy :
        ChildExecutionTerminationPolicy[v] = member

\* The dicts with the given key or without it.
Optional(key, values) == {NoArguments} \cup {key :> v : v \in values}

\* API data holding any subset of the execution-configuration keys.
ExecutionConfigurationData ==
    {a @@ b @@ c @@ d @@ e @@ f :
        a \in Optional("executionStartToCloseTimeout", ApiTimeouts),
        b \in Optional("taskStartToCloseTimeout", ApiTimeouts),
        c \in Optional("taskList", ApiTaskLists),
        d \in Optional("taskPriority", ApiPriorities),
        e \in Optional("childPolicy", DOMAIN ChildExecutionTerminationPolicy),
        f \in Optional("lambdaRole", ApiRoles)}

\* str(n) for n >= 0: its decimal digits.
RECURSIVE str(_)
str(n) ==
    LET digit == CHOOSE c \in DigitCharacters : DigitValue(c) = n % 10
    IN  IF n < 10 THEN <<digit>> ELSE Append(str(n \div 10), digit)

\* PartialExecutionConfiguration.from_api: data.get(key) and convert(...)
\* is None for a key the data does not hold (the strings drawn above for
\* timeouts and priorities are not empty, so they are true).
PartialExecutionConfiguration_from_api(data) ==
    [timeout |->
        IF "executionStartToCloseTimeout" \in DOMAIN data
        THEN parse_timeout(data.executionStartToCloseTimeout)
        ELSE {},
     decision_task_timeout |->
        IF "taskStartToCloseTimeout" \in DOMAIN data
        THEN parse_timeout(data.taskStartToCloseTimeout)
        ELSE {},
     decision_task_list |->
        IF "taskList" \in DOMAIN data THEN data.taskList.name ELSE None,
     decision_task_priority |->
        IF "taskPriority" \in DOMAIN data
        THEN {int(data.taskPriority)}
        ELSE {},
     child_execution_policy_on_termination |->
        IF "childPolicy" \in DOMAIN data
        THEN ChildExecutionTerminationPolicy[data.childPolicy]
        ELSE None,
     lambda_iam_role_arn |->
        IF "lambdaRole" \in DOMAIN data THEN data.lambdaRole ELSE None]

\* The timeout part of get_api_args: the seconds of a timedelta (zero
\* included), "NONE" for None, nothing for unset.
TimeoutArgument(key, timeout) ==
    IF timeout = unset
    THEN NoArguments
    ELSE IF timeout = {}
    THEN key :> NONE
    ELSE key :> str(total_seconds(CHOOSE delta \in timeout : TRUE))

\* PartialExecutionConfiguration.get_api_args
PartialExecutionConfiguration_get_api_args(self) ==
    TimeoutArgument("executionStartToCloseTimeout", self.timeout)
    @@ TimeoutArgument("taskStartToCloseTimeout", self.decision_task_timeout)
    @@ (IF self.decision_task_list # None
        THEN "taskList" :> [name |-> self.decision_task_list]
        ELSE NoArguments)
    @@ (IF self.decision_task_priority # {}
        THEN "taskPriority" :>
                str(CHOOSE n \in self.decision_task_priority : TRUE)
        ELSE NoArguments)
    @@ (IF self.child_execution_policy_on_termination # None
        THEN "childPolicy" :> value(self.child_execution_policy_on_termination)
        ELSE NoArguments)
    @@ (IF self.lambda_iam_role_arn # None
        THEN "lambdaRole" :> self.lambda_iam_role_arn
        ELSE NoArguments)

\* A configuration is made from API data ...
from_api ==
    /\ api_data # Unset
    /\ partial_configuration = Unset
    /\ partial_configuration' = PartialExecutionConfiguration_from_api(api_data)
    /\ UNCHANGED <<api_data, api_args, activity_id>>
    /\ UNCHANGED <<callVars, other, pagerVars, execution_history, utilVars>>
    /\ UNCHANGED <<walkVars, wrapperVars, taskVars>>

\* ... and serialised to the arguments of a request.
get_api_args ==
    /\ partial_configuration # Unset
    /\ api_args = Unset
    /\ api_args' = PartialExecutionConfiguration_get_api_args(partial_configuration)
    /\ UNCHANGED <<api_data, partial_configuration, activity_id>>
    /\ UNCHANGED <<callVars, other, pagerVars, execution_history, utilVars>>
    /\ UNCHANGED <<walkVars, wrapperVars, taskVars>>

InitConfiguration ==
    /\ NoCall
    /\ NoConsumer
    /\ execution_history = <<>>
    /\ requests = <<>>
    /\ socket_default_timeout = {}
    /\ contexts = <<>>
    /\ raising = "none"
    /\ timeout_data = NONE
    /\ parsed = Unset
    /\ NoWalk
    /\ NoWrapper
    /\ NoTask
    /\ api_data \in ExecutionConfigurationData
    /\ partial_configuration = Unset
    /\ api_args = Unset
    /\ NoActivity

NextConfiguration ==
    \/ from_api
    \/ get_api_args

SpecConfiguration == InitConfiguration /\ [][NextConfiguration]_vars


(***************************************************************************)
(* ActivityId and the requests made with it                                *)
(* (src/src/swf_typed/_activities.py).                                     *)
(***************************************************************************)
ActivityNames == {"a1", "a2", "1.0"}
ActivityVersions == {"1.0", "2.0", "a1"}

\* ActivityId(name, version)
ActivityId(name, version) == [name |-> name, version |-> version]

ActivityIds ==
    {ActivityId(name, version) :
        name \in ActivityNames, version \in ActivityVersions}

\* ActivityId.from_api
ActivityId_from_api(data) == ActivityId(data.name, data.version)

\* ActivityId.to_api
ActivityId_to_api(self) == [name |-> self.name, version |-> self.name]

\* The request of deprecate_activity, describe_activity and
\* undeprecate_activity: the domain and the activity in its API form.
ActivityTypeRequest(operation, domain) ==
    /\ activity_id # Unset
    /\ Len(requests) < MaxRequests
    /\ requests' = Append(requests,
            [operation |-> operation,
             kwargs |-> [domain |-> domain,
                         activityType |-> ActivityId_to_api(activity_id)]])
    /\ UNCHANGED <<callVars, other, pagerVars, execution_history, moreVars>>
    /\ UNCHANGED <<socket_default_timeout, contexts, raising,
                   timeout_data, parsed>>

deprecate_activity(domain) ==
    ActivityTypeRequest("deprecate_activity_type", domain)

describe_activity(domain) ==
    ActivityTypeRequest("describe_activity_type", domain)

undeprecate_activity(domain) ==
    ActivityTypeRequest("undeprecate_activity_type", domain)

InitActivity ==
    /\ NoCall
    /\ NoConsumer
    /\ execution_history = <<>>
    /\ requests = <<>>
    /\ socket_default_timeout = {}
    /\ contexts = <<>>
    /\ raising = "none"
    /\ timeout_data = NONE
    /\ parsed = Unset
    /\ NoWalk
    /\ NoWrapper
    /\ NoTask
    /\ NoForm
    /\ activity_id \in ActivityIds

NextActivity ==
    \/ \E domain \in Domains : deprecate_activity(domain)
    \/ \E domain \in Domains : describe_activity(domain)
    \/ \E domain \in Domains : undeprecate_activity(domain)

SpecActivity == InitActivity /\ [][NextActivity]_vars


(***************************************************************************)
(* Reading the history.                                                    *)
(***************************************************************************)
\* The events _process_event returned from: all but the one that raised.
Folded == IF pc = "raised" THEN SubSeq(history, 1, Len(history) - 1) ELSE history

\* This step handed the event Last(history') to _process_event.
EventTaken == history' # history

TaskFollowUpTypes ==
    {"ActivityTaskStarted", "ActivityTaskCompleted", "ActivityTaskFailed",
     "ActivityTaskCancelled", "ActivityTaskTimedOut"}
ChildFollowUpTypes ==
    {"ChildWorkflowExecutionStarted", "ChildWorkflowExecutionCompleted",
     "ChildWorkflowExecutionFailed", "ChildWorkflowExecutionCancelled",
     "ChildWorkflowExecutionTerminated", "ChildWorkflowExecutionTimedOut"}
TimerFollowUpTypes == {"TimerFired", "TimerCancelled"}
FollowUpTypes == TaskFollowUpTypes \cup ChildFollowUpTypes \cup TimerFollowUpTypes

BackReference(event) ==
    CASE event.type \in TaskFollowUpTypes -> event.task_scheduled_event_id
      [] event.type \in ChildFollowUpTypes -> event.execution_initiated_event_id
      [] event.type \in TimerFollowUpTypes -> event.timer_started_event_id

IntroducingType(event) ==
    CASE event.type \in TaskFollowUpTypes -> "ActivityTaskScheduled"
      [] event.type \in ChildFollowUpTypes -> "StartChildWorkflowExecutionInitiated"
      [] event.type \in TimerFollowUpTypes -> "TimerStarted"

\* The follow-up event refers to an event of the matching introducing type
\* among the events of h.
Introduced(event, h) ==
    \E k \in 1..Len(h) :
        h[k].type = IntroducingType(event) /\ h[k].id = BackReference(event)

Dangling(event, h) == event.type \in FollowUpTypes /\ ~Introduced(event, h)

(***************************************************************************)
(* C1: a follow-up event (task, child execution, timer) whose              *)
(* back-reference no earlier scheduled/initiated/timer-started event       *)
(* introduced makes build_state fail with a lookup error: the step creates *)
(* no entity, changes nothing of the builder and does not go on.           *)
(***************************************************************************)
C1_DanglingReferenceFails ==
    [][(EventTaken /\ Dangling(Last(history'), history))
        => /\ pc' = "raised"
           /\ IsLookupError(error')
           /\ UNCHANGED builderVars]_vars

\* A task follow-up with an unknown back-reference arrived while another
\* task was known, and the fold failed on it.
C1_Witness ==
    /\ pc = "raised"
    /\ IsLookupError(error)
    /\ Last(history).type \in TaskFollowUpTypes
    /\ Dangling(Last(history), Folded)
    /\ Len(taskObjs) = 1

(***************************************************************************)
(* C2: once an event has raised a lookup error the fold is over: no later  *)
(* event is taken and build_state does not return.                         *)
(***************************************************************************)
C2_FoldStopsAtFault ==
    [][~(pc = "raised" /\ IsLookupError(error))]_vars

\* A lookup failure on the first or second event, with room for more events.
C2_Witness ==
    /\ pc = "raised"
    /\ IsLookupError(error)
    /\ Len(history) < MaxEvents

\* Number of events of the given type among the events of h.
CountType(h, type) == Cardinality({k \in 1..Len(h) : h[k].type = type})

\* The event of h with the given id.
EventWithId(h, id) == h[CHOOSE k \in 1..Len(h) : h[k].id = id]

\* The task-scheduled events folded, in the order they were folded.
ScheduledEvents ==
    SelectSeq(Folded, LAMBDA event : event.type = "ActivityTaskScheduled")

C4_StartedCorrelation ==
    [][(/\ EventTaken
        /\ Last(history').type = "ActivityTaskStarted"
        /\ Introduced(Last(history'), history))
        => LET event == Last(history')
               scheduled == EventWithId(history, event.task_scheduled_event_id)
               created == {j \in 1..Len(taskObjs) :
                              /\ taskObjs[j].scheduled = scheduled.occured
                              /\ taskObjs[j].id = scheduled.task_id}
           IN  /\ pc' = "building"
               /\ Cardinality(created) = 1
               /\ Len(taskObjs') = Len(taskObjs)
               /\ \A j \in 1..Len(taskObjs) :
                    taskObjs'[j] =
                        IF j \in created
                        THEN [taskObjs[j] EXCEPT
                                !.status = "started",
                                !.started = event.occured,
                                !.worker_identity = event.worker_identity]
                        ELSE taskObjs[j]
               /\ execution' = execution]_vars

\* Two tasks in flight; the last event started the one scheduled first.
C4_Witness ==
    /\ pc = "building"
    /\ execution # Unset
    /\ Len(Tasks) = 2
    /\ Last(history).type = "ActivityTaskStarted"
    /\ Tasks[1].status = "started"
    /\ Tasks[1].started = Last(history).occured
    /\ Tasks[2].status = "scheduled"

TerminalTypes ==
    {"WorkflowExecutionCompleted", "WorkflowExecutionFailed",
     "WorkflowExecutionCancelled", "WorkflowExecutionTerminated",
     "WorkflowExecutionTimedOut"}

\* The status an execution-closing event stands for.
TargetStatus(type) ==
    CASE type = "WorkflowExecutionCompleted" -> "completed"
      [] type = "WorkflowExecutionFailed" -> "failed"
      [] type = "WorkflowExecutionCancelled" -> "cancelled"
      [] type = "WorkflowExecutionTerminated" -> "terminated"
      [] type = "WorkflowExecutionTimedOut" -> "timed_out"

\* The execution-closing events folded, in the order they were folded.
TerminalEvents ==
    SelectSeq(Folded, LAMBDA event : event.type \in TerminalTypes)

(***************************************************************************)
(* C5: with one execution-started event and exactly one execution-closing  *)
(* event folded, the snapshot's status is that event's target status and   *)
(* its end time that event's time; while no closing event has been folded  *)
(* the status is started and the end time is unset.                        *)
(***************************************************************************)
C5_TerminalStatus ==
    /\ (/\ execution # Unset
        /\ CountType(Folded, "WorkflowExecutionStarted") = 1
        /\ Len(TerminalEvents) = 1)
        => /\ execution.status = TargetStatus(TerminalEvents[1].type)
           /\ execution.ended = TerminalEvents[1].occured
    /\ (execution # Unset /\ Len(TerminalEvents) = 0)
        => /\ execution.status = "started"
           /\ execution.ended = None

\* build_state returned a timed-out execution; a timer event followed the
\* closing event.
C5_Witness ==
    /\ pc = "returned"
    /\ CountType(history, "WorkflowExecutionStarted") = 1
    /\ Len(TerminalEvents) = 1
    /\ TerminalEvents[1].type = "WorkflowExecutionTimedOut"
    /\ execution.status = "timed_out"
    /\ Last(history).type \in {"TimerStarted", "TimerFired", "TimerCancelled"}

\* The child-started events of h that refer to the given initiation.
StartedEventsOf(h, id) ==
    SelectSeq(h, LAMBDA event :
        /\ event.type = "ChildWorkflowExecutionStarted"
        /\ event.execution_initiated_event_id = id)

(***************************************************************************)
(* C6: a child-started event that refers to an earlier child-initiated     *)
(* event appends a child with the initiated event's workflow type,         *)
(* configuration, input and control and the started event's execution id   *)
(* and time, registered under the initiated event's id; a later child      *)
(* completed/failed/cancelled/terminated/timed-out event with that         *)
(* back-reference updates that child and no other.                         *)
(***************************************************************************)
C6_ChildPromotion ==
    [][EventTaken =>
        LET event == Last(history')
        IN  /\ (/\ event.type = "ChildWorkflowExecutionStarted"
                /\ Introduced(event, history)
                /\ execution # Unset)
                => LET initiated ==
                           EventWithId(history, event.execution_initiated_event_id)
                       child == Last(childObjs')
                   IN  /\ pc' = "building"
                       /\ Len(childObjs') = Len(childObjs) + 1
                       /\ child.workflow = initiated.workflow
                       /\ child.configuration = initiated.execution_configuration
                       /\ child.input = initiated.execution_input
                       /\ child.decider_control = initiated.control
                       /\ child.execution = event.execution
                       /\ child.started = event.occured
                       /\ child.status = "started"
                       /\ ChildExecutions' = Append(ChildExecutions, child)
                       /\ initiated.id \in DOMAIN _child_executions'
                       /\ _child_executions'[initiated.id] = Len(childObjs')
            /\ (/\ event.type \in ChildFollowUpTypes \ {"ChildWorkflowExecutionStarted"}
                /\ Len(StartedEventsOf(history, event.execution_initiated_event_id)) > 0)
                => LET started == Last(StartedEventsOf(history,
                                        event.execution_initiated_event_id))
                       same == {j \in 1..Len(childObjs) :
                                    childObjs[j].started = started.occured}
                   IN  /\ pc' = "building"
                       /\ Cardinality(same) = 1
                       /\ Len(childObjs') = Len(childObjs)
                       /\ \A j \in 1..Len(childObjs) :
                            IF j \in same
                            THEN childObjs'[j].ended = event.occured
                            ELSE childObjs'[j] = childObjs[j]]_vars

\* A child of workflow W2 with configuration C2, initiated after another
\* initiation, was started and then completed.
C6_Witness ==
    /\ pc = "building"
    /\ execution # Unset
    /\ Len(_child_execution_initiation_events) = 2
    /\ Len(ChildExecutions) = 1
    /\ ChildExecutions[1].workflow = "W2"
    /\ ChildExecutions[1].configuration = "C2"
    /\ ChildExecutions[1].status = "completed"
    /\ Last(history).type = "ChildWorkflowExecutionCompleted"
    /\ Last(history).execution_initiated_event_id =
            _child_execution_initiation_events[2].id

\* The position in Folded of the event the signal was made from.
SignalPosition(signal) ==
    CHOOSE k \in 1..Len(Folded) :
        /\ Folded[k].type = "WorkflowExecutionSignaled"
        /\ Folded[k].occured = signal.received

(***************************************************************************)
(* C7: a signal of the snapshot is new exactly while no                    *)
(* decision-task-completed event has been folded after it.                 *)
(***************************************************************************)
C7_SignalFreshness ==
    execution # Unset =>
        \A i \in 1..Len(execution.signals) :
            LET signal == execution.signals[i]
            IN  is_new(signal) <=>
                    ~\E j \in (SignalPosition(signal) + 1)..Len(Folded) :
                        Folded[j].type = "DecisionTaskCompleted"

\* Decision, signal, decision, signal: the first signal is no longer new,
\* the second one is.
C7_Witness ==
    /\ execution # Unset
    /\ Len(execution.signals) = 2
    /\ ~is_new(execution.signals[1])
    /\ is_new(execution.signals[2])

(***************************************************************************)
(* C8: once the execution has started, a signal-received event appends one *)
(* signal with the event's name, payload and time and never fails, also    *)
(* when no decision-task-completed event came before it.                   *)
(***************************************************************************)
C8_SignalAlwaysAppends ==
    [][(/\ EventTaken
        /\ Last(history').type = "WorkflowExecutionSignaled"
        /\ execution # Unset)
        => LET event == Last(history')
               signal == Last(execution'.signals)
           IN  /\ pc' = "building"
               /\ Len(execution'.signals) = Len(execution.signals) + 1
               /\ signal.name = event.signal_name
               /\ signal.input = event.signal_input
               /\ signal.received = event.occured]_vars

\* The five events of the end-to-end scenario have been folded and
\* build_state has returned.
ScenarioFolded ==
    /\ pc = "returned"
    /\ Len(history) = 5
    /\ history[1].type = "WorkflowExecutionStarted"
    /\ history[1].execution_input = "x"
    /\ history[2].type = "ActivityTaskScheduled"
    /\ history[2].task_id = "t1"
    /\ history[3].type = "ActivityTaskStarted"
    /\ history[3].task_scheduled_event_id = 2
    /\ history[3].worker_identity = "w1"
    /\ history[4].type = "ActivityTaskCompleted"
    /\ history[4].task_scheduled_event_id = 2
    /\ history[4].task_result = "ok"
    /\ history[5].type = "WorkflowExecutionCompleted"
    /\ history[5].execution_result = "done"

(***************************************************************************)
(* C9: folding [Started(1, input x), ActivityScheduled(2, t1),             *)
(* ActivityStarted(3, backref 2, worker w1), ActivityCompleted(4,          *)
(* backref 2, result ok), Completed(5, result done)] returns a snapshot    *)
(* with status completed, result done and exactly one task: id t1, status  *)
(* completed, worker identity w1, result ok.                               *)
(***************************************************************************)
C9_EndToEnd ==
    ScenarioFolded
        => /\ execution.status = "completed"
           /\ execution.result = "done"
           /\ Len(Tasks) = 1
           /\ Tasks[1].id = "t1"
           /\ Tasks[1].status = "completed"
           /\ Tasks[1].worker_identity = "w1"
           /\ Tasks[1].result = "ok"

C9_Witness == ScenarioFolded /\ execution.input = "x"

(***************************************************************************)
(* C11: between its initiated event and its started event a child is not   *)
(* visible: the initiated event leaves the snapshot, its child list and    *)
(* the registered children unchanged, and a child completed/failed/        *)
(* cancelled/terminated/timed-out event that refers to an initiation no    *)
(* started event has promoted yet fails with a lookup error and updates or *)
(* creates nothing.                                                        *)
(***************************************************************************)
C11_ChildInvisibleUntilStarted ==
    [][EventTaken =>
        LET event == Last(history')
        IN  /\ event.type = "StartChildWorkflowExecutionInitiated"
                => /\ pc' = "building"
                   /\ execution' = execution
                   /\ childObjs' = childObjs
                   /\ _child_executions' = _child_executions
            /\ (/\ event.type \in ChildFollowUpTypes \ {"ChildWorkflowExecutionStarted"}
                /\ Introduced(event, history)
                /\ Len(StartedEventsOf(history, event.execution_initiated_event_id)) = 0)
                => /\ pc' = "raised"
                   /\ IsLookupError(error')
                   /\ UNCHANGED builderVars]_vars

\* The execution has started and one child was initiated but not started;
\* a child-completed event referring to the initiation failed the fold and
\* the snapshot still shows no child.
C11_Witness ==
    /\ pc = "raised"
    /\ IsLookupError(error)
    /\ execution # Unset
    /\ Last(history).type = "ChildWorkflowExecutionCompleted"
    /\ Introduced(Last(history), Folded)
    /\ Len(StartedEventsOf(Folded, Last(history).execution_initiated_event_id)) = 0
    /\ Len(_child_execution_initiation_events) = 1
    /\ Len(ChildExecutions) = 0

\* The status a task follow-up event stands for.
TaskTargetStatus(type) ==
    CASE type = "ActivityTaskStarted" -> "started"
      [] type = "ActivityTaskCompleted" -> "completed"
      [] type = "ActivityTaskFailed" -> "failed"
      [] type = "ActivityTaskCancelled" -> "cancelled"
      [] type = "ActivityTaskTimedOut" -> "timed_out"

(***************************************************************************)
(* C12, as stated: in every history folded without raising, a task's       *)
(* status changes only from scheduled to started or from started to        *)
(* completed, failed, cancelled or timed_out; a task in one of these four  *)
(* statuses never changes status again.                                    *)
(***************************************************************************)
C12_TaskStatusStateMachine ==
    [][\A j \in 1..Len(taskObjs) :
        (j \in 1..Len(taskObjs') /\ taskObjs'[j].status # taskObjs[j].status)
            => \/ /\ taskObjs[j].status = "scheduled"
                  /\ taskObjs'[j].status = "started"
               \/ /\ taskObjs[j].status = "started"
                  /\ taskObjs'[j].status \in
                        {"completed", "failed", "cancelled", "timed_out"}]_vars

(***************************************************************************)
(* C12, amended: a task is created with status scheduled, and its status   *)
(* changes only when a task follow-up event referring to its scheduled     *)
(* event is folded; that event never fails and sets the status it stands   *)
(* for (started, completed, failed, cancelled, timed_out) whatever the     *)
(* status was before, so a scheduled task can end without having started   *)
(* and an ended task can change status again.                              *)
(***************************************************************************)
C12_TaskStatusFollowsEvents ==
    [][/\ Len(taskObjs') >= Len(taskObjs)
       /\ \A j \in (Len(taskObjs) + 1)..Len(taskObjs') :
            taskObjs'[j].status = "scheduled"
       /\ IF /\ EventTaken
             /\ Last(history').type \in TaskFollowUpTypes
             /\ Introduced(Last(history'), history)
          THEN LET event == Last(history')
                   scheduled == EventWithId(history, event.task_scheduled_event_id)
               IN  /\ pc' = "building"
                   /\ \A j \in 1..Len(taskObjs) :
                        taskObjs'[j].status =
                            IF taskObjs[j].scheduled = scheduled.occured
                            THEN TaskTargetStatus(event.type)
                            ELSE taskObjs[j].status
          ELSE \A j \in 1..Len(taskObjs) :
                    taskObjs'[j].status = taskObjs[j].status]_vars

\* A task that had ended (its end time is set) was started by a later
\* started event: its status went back from completed to started.
C12_Witness ==
    /\ pc = "building"
    /\ Len(history) >= 2
    /\ Last(history).type = "ActivityTaskStarted"
    /\ history[Len(history) - 1].type = "ActivityTaskCompleted"
    /\ history[Len(history) - 1].task_scheduled_event_id =
            Last(history).task_scheduled_event_id
    /\ \E j \in 1..Len(taskObjs) :
            /\ taskObjs[j].status = "started"
            /\ taskObjs[j].ended = history[Len(history) - 1].occured
            /\ taskObjs[j].started = Last(history).occured

\* The field invariants of one task.
TaskFieldsConsistent(task) ==
    /\ task.worker_identity # None => task.started # None
    /\ ~(task.result # None /\ task.failure_reason # None)
    /\ (\/ task.result # None
        \/ task.failure_reason # None
        \/ task.stop_details # None) => has_ended(task)
    /\ task.timeout_type # None => task.status = "timed_out"

\* No folded task follow-up event refers to a task that an earlier folded
\* event had already ended.
NoFollowUpAfterEnd ==
    \A k, l \in 1..Len(Folded) :
        (/\ k < l
         /\ Folded[k].type \in TaskFollowUpTypes
         /\ Folded[l].type \in TaskFollowUpTypes
         /\ Folded[k].task_scheduled_event_id = Folded[l].task_scheduled_event_id)
            => Folded[k].type = "ActivityTaskStarted"

(***************************************************************************)
(* C13, as stated: after every event of a fold every task has its worker   *)
(* identity set only if it has been started, never both a result and a     *)
(* failure reason, result, failure reason and stop details set only while  *)
(* its status is completed, failed, cancelled or timed_out, and its        *)
(* timeout type set only while its status is timed_out.                    *)
(***************************************************************************)
C13_TaskFieldInvariants ==
    \A j \in 1..Len(taskObjs) : TaskFieldsConsistent(taskObjs[j])

(***************************************************************************)
(* C13, amended: the same holds of every task after every event of a fold  *)
(* in which no task follow-up event refers to a task an earlier event had  *)
(* already ended.                                                          *)
(***************************************************************************)
C13_TaskFieldInvariantsUntilEnd ==
    NoFollowUpAfterEnd =>
        \A j \in 1..Len(taskObjs) : TaskFieldsConsistent(taskObjs[j])

\* Of two tasks one was started and then timed out, the other is still
\* scheduled.
C13_Witness ==
    /\ pc = "building"
    /\ NoFollowUpAfterEnd
    /\ Len(taskObjs) = 2
    /\ \E j \in 1..2 :
            /\ taskObjs[j].status = "timed_out"
            /\ taskObjs[j].timeout_type # None
            /\ taskObjs[j].worker_identity # None
            /\ taskObjs[j].stop_details # None
            /\ taskObjs[3 - j].status = "scheduled"

(***************************************************************************)
(* C14, as stated: once an execution cancel-requested event has set the    *)
(* snapshot's cancel_requested flag, the flag is true after every later    *)
(* event, whatever events follow.                                          *)
(***************************************************************************)
C14_CancelRequestedMonotonic ==
    [][(execution # Unset /\ execution.cancel_requested)
        => (execution' # Unset /\ execution'.cancel_requested)]_vars

(***************************************************************************)
(* C14, amended: once set, the flag is true after every later event other  *)
(* than an execution-started event; a further execution-started event      *)
(* replaces the snapshot by a fresh one whose flag is false.               *)
(***************************************************************************)
C14_CancelRequestedUntilRestart ==
    [][/\ (/\ execution # Unset
           /\ execution.cancel_requested
           /\ ~(EventTaken /\ Last(history').type = "WorkflowExecutionStarted"))
            => (execution' # Unset /\ execution'.cancel_requested)
       /\ (EventTaken /\ Last(history').type = "WorkflowExecutionStarted")
            => (execution' # Unset /\ ~execution'.cancel_requested)]_vars

\* A cancel request, then the cancellation, then a timer event: the flag is
\* still set.
C14_Witness ==
    /\ pc = "building"
    /\ execution # Unset
    /\ execution.cancel_requested
    /\ execution.status = "cancelled"
    /\ CountType(history, "WorkflowExecutionCancelRequested") = 1
    /\ Last(history).type = "TimerStarted"

CapturedAtStart(state) ==
    [configuration |-> state.configuration, started |-> state.started,
     input |-> state.input]

\* The snapshot's collections.
Collections(state) ==
    [tasks |-> state.tasks, child_executions |-> state.child_executions,
     timers |-> state.timers, signals |-> state.signals]

\* This step folded an execution-closing or cancel-requested event into an
\* existing snapshot.
LifecycleEventTaken ==
    /\ EventTaken
    /\ Last(history').type \in TerminalTypes \cup {"WorkflowExecutionCancelRequested"}
    /\ execution # Unset

\* An execution-closing or cancel-requested event leaves the collections,
\* the entities in them and the fields captured at the start as they were:
\* of the snapshot's thirteen fields only status, ended, result,
\* failure_reason, stop_details and cancel_requested can differ.
LifecycleFrame ==
    LifecycleEventTaken
        => /\ pc' = "building"
           /\ Collections(execution') = Collections(execution)
           /\ CapturedAtStart(execution') = CapturedAtStart(execution)
           /\ UNCHANGED <<taskObjs, childObjs, timerObjs, _tasks,
                          _child_executions, _child_execution_initiation_events,
                          _timers, _latest_decision_event_id>>

(***************************************************************************)
(* C16, as stated: configuration, start time and input of the snapshot are *)
(* never changed by any later event; execution-closing and                 *)
(* cancel-requested events change only status, end time, result, failure   *)
(* reason, stop details and the cancel_requested flag and leave the task,  *)
(* child, timer and signal collections untouched.                          *)
(***************************************************************************)
C16_StartFieldsImmutable ==
    [][/\ execution # Unset
            => /\ execution' # Unset
               /\ CapturedAtStart(execution') = CapturedAtStart(execution)
       /\ LifecycleFrame]_vars

(***************************************************************************)
(* C16, amended: configuration, start time and input are never changed by  *)
(* a later event other than a further execution-started event (which       *)
(* replaces the snapshot); execution-closing and cancel-requested events   *)
(* change only status, end time, result, failure reason, stop details and  *)
(* the cancel_requested flag and leave the collections untouched.          *)
(***************************************************************************)
C16_StartFieldsImmutableUntilRestart ==
    [][/\ (/\ execution # Unset
           /\ ~(EventTaken /\ Last(history').type = "WorkflowExecutionStarted"))
            => /\ execution' # Unset
               /\ CapturedAtStart(execution') = CapturedAtStart(execution)
       /\ LifecycleFrame]_vars

\* A task was scheduled and then the execution failed: the snapshot keeps
\* the task and what the started event gave it.
C16_Witness ==
    /\ pc = "building"
    /\ Len(history) = 3
    /\ history[1].type = "WorkflowExecutionStarted"
    /\ history[2].type = "ActivityTaskScheduled"
    /\ history[3].type = "WorkflowExecutionFailed"
    /\ execution.status = "failed"
    /\ execution.started = history[1].occured
    /\ execution.input = history[1].execution_input
    /\ Len(Tasks) = 1

\* What a call that has taken the events of c.history is when it ran alone.
Alone(c) ==
    IF c.pc \in {"returned", "raised_at_return"}
    THEN build_state(c.history)
    ELSE build(c.history)

(***************************************************************************)
(* C17: two build_state calls over different histories, interleaved event  *)
(* by event in any order, are each at every moment, and when they return,  *)
(* exactly what the call is when it folds its history alone: snapshot,     *)
(* task, child, timer and signal lists, the entities in them and what      *)
(* decides the signals' freshness.                                         *)
(***************************************************************************)
C17_ReplaysIndependent ==
    /\ Running = Alone(Running)
    /\ other = Alone(other)

\* Both calls have returned; one folded a decision and a signal, the other
\* one folded neither, so its snapshot has no signal.
C17_Witness ==
    /\ pc = "returned"
    /\ other.pc = "returned"
    /\ history # other.history
    /\ Len(execution.signals) = 1
    /\ is_new(execution.signals[1])
    /\ Len(other.history) = 1
    /\ Len(other.execution.signals) = 0

(***************************************************************************)
(* Reading an iteration.                                                   *)
(***************************************************************************)
IsPrefix(a, b) == Len(a) <= Len(b) /\ a = SubSeq(b, 1, Len(a))

\* The models of the items of the first k pages, page by page.
RECURSIVE ModelsOfPages(_)
ModelsOfPages(k) ==
    IF k = 0
    THEN <<>>
    ELSE ModelsOfPages(k - 1) \o [j \in 1..Len(pages[k]) |-> model(pages[k][j])]

\* One call per page: without a token, then with each page's token.
CallPerPage == [k \in 1..Len(pages) |-> Token(k)]

\* The page the consumer holds.
CurrentPage == CHOOSE k \in 1..Len(pages) : api_call(Token(k)) = response

\* The fetches submitted and not yet done.
Outstanding == {f \in 1..Len(futures) : futures[f].state # "finished"}

(***************************************************************************)
(* C18: iterating the consumer iter_paged returns yields the model of      *)
(* every item of every page exactly once, pages in token order and items   *)
(* in page order, and then stops with StopIteration.                       *)
(***************************************************************************)
C18_YieldsEveryItemOnce ==
    /\ IsPrefix(yielded, ModelsOfPages(Len(pages)))
    /\ ipc \in {"stopped", "raised"}
        => /\ ipc = "stopped"
           /\ yielded = ModelsOfPages(Len(pages))

(***************************************************************************)
(* C19: the paginated method is called once without a token by iter_paged  *)
(* itself, then once with each page's nextPageToken in page order: the     *)
(* calls made are at every moment the first calls of that list, so no page *)
(* is fetched twice and none after a page without a token, and when the    *)
(* iteration has stopped every page has been fetched.                      *)
(***************************************************************************)
C19_OneCallPerPage ==
    /\ IsPrefix(calls, CallPerPage)
    /\ ipc # "not_called" => (Len(calls) >= 1 /\ calls[1] = None)
    /\ ipc = "stopped" => calls = CallPerPage

\* The iteration of test_iter_paged: three pages of two items, all yielded,
\* three calls.
C19_Witness ==
    /\ ipc = "stopped"
    /\ Len(pages) = 3
    /\ \A k \in 1..3 : Len(pages[k]) = 2
    /\ yielded = <<1, 2, 3, 4, 5, 6>>
    /\ calls = <<None, "page-2", "page-3">>

(***************************************************************************)
(* C20: after iter_paged's own call the paginated method is called in the  *)
(* executor's thread, in steps that leave the consumer as it is; at most   *)
(* one fetch is outstanding at any time; and while the consumer holds page *)
(* k no page after k + 1 has been scheduled and every item of the pages    *)
(* before k has been yielded.                                              *)
(***************************************************************************)
C20_OneFetchAhead ==
    [][/\ (calls' # calls /\ ipc # "not_called")
            => UNCHANGED <<ipc, response, _i, _future, yielded>>
       /\ Cardinality(Outstanding') <= 1
       /\ ipc' # "not_called"
            => /\ Len(futures') <= CurrentPage'
               /\ IsPrefix(ModelsOfPages(CurrentPage' - 1), yielded')]_vars

\* The worker is in the call for the third page while the caller has
\* taken one of the two items of the second.
C20_Witness ==
    /\ ipc = "ready"
    /\ Len(pages) = 3
    /\ CurrentPage = 2
    /\ Len(_items(response)) = 2
    /\ _i = 1
    /\ \E f \in _future :
            /\ futures[f].state = "running"
            /\ futures[f].nextPageToken = "page-3"

(***************************************************************************)
(* C21: signal_execution invokes the client's signal-workflow-execution    *)
(* operation with the domain, the workflow id and the signal name, plus    *)
(* the run id exactly when an ExecutionId is given and the input exactly   *)
(* when one is given, the empty string included.                           *)
(***************************************************************************)
C21_SignalExecutionRequest ==
    [][\A specifier \in ExecutionSpecifiers, signal \in SignalNames,
          domain \in Domains, input_ \in SignalInputs :
            signal_execution(specifier, signal, domain, input_)
                => LET request == Last(requests')
                       kwargs == request.kwargs
                   IN  /\ Len(requests') = Len(requests) + 1
                       /\ request.operation = "signal_workflow_execution"
                       /\ kwargs.domain = domain
                       /\ kwargs.workflowId = specifier.id
                       /\ kwargs.signalName = signal
                       /\ "runId" \in DOMAIN kwargs
                            <=> specifier.class = "ExecutionId"
                       /\ "runId" \in DOMAIN kwargs
                            => kwargs.runId = specifier.run_id
                       /\ "input" \in DOMAIN kwargs <=> input_ # None
                       /\ "input" \in DOMAIN kwargs => kwargs.input = input_]_vars

(***************************************************************************)
(* C22: entering polling_socket_timeout sets the process-wide default      *)
(* socket timeout to the given value; leaving a context, whether its body  *)
(* returned or an exception is travelling out of it, restores the value    *)
(* that was current when it was entered, so nested contexts restore in     *)
(* last-in-first-out order: the default is always the timeout of the       *)
(* innermost open context, and the process's own default when none is      *)
(* open.                                                                   *)
(***************************************************************************)
C22_TimeoutSetAndRestored ==
    [][/\ \A timeout \in PollingTimeouts :
            (polling_socket_timeout(timeout) /\ Len(contexts') > Len(contexts))
                => socket_default_timeout' = {total_seconds(timeout)}
       /\ Len(contexts') < Len(contexts)
            => /\ contexts' = SubSeq(contexts, 1, Len(contexts) - 1)
               /\ socket_default_timeout' =
                    IF contexts' = <<>>
                    THEN {}
                    ELSE {total_seconds(Last(contexts').timeout)}]_vars

\* The body of a context has raised and the exception has left every open
\* context: the default is the process's own again.
C22_Witness ==
    /\ raising = "Exception"
    /\ contexts = <<>>
    /\ socket_default_timeout = {}

(***************************************************************************)
(* C23: parse_timeout returns None for the string NONE and, for a string   *)
(* of decimal digits that denotes the non-negative integer n, the string   *)
(* 0 included, a duration of exactly n seconds.                            *)
(***************************************************************************)
\* The integer a string of decimal digits denotes: the sum of its digits,
\* each weighted by the power of ten of its place.
Denoted(string) ==
    LET place[k \in 0..Len(string)] ==
            IF k = 0 THEN 0
            ELSE place[k - 1]
                    + DigitValue(string[k]) * 10 ^ (Len(string) - k)
    IN  place[Len(string)]

C24_CancelRequestedFrame ==
    [][(/\ EventTaken
        /\ Last(history').type = "ActivityTaskCancelRequested"
        /\ execution # Unset)
        => LET event == Last(history')
               matches == {i \in 1..Len(Tasks) : Tasks[i].id = event.task_id}
           IN  /\ pc' = "building"
                    => /\ \E k \in 1..Len(taskObjs) :
                            /\ taskObjs[k].id = event.task_id
                            /\ taskObjs' = [taskObjs EXCEPT
                                    ![k].cancel_requested = TRUE]
                       /\ UNCHANGED <<execution, childObjs, timerObjs, _tasks,
                                      _child_executions,
                                      _child_execution_initiation_events,
                                      _timers, _latest_decision_event_id>>
               /\ (/\ Cardinality(matches) = 1
                   /\ \A i \in matches : ~has_ended(Tasks[i]))
                    => pc' = "building"]_vars

\* The request reached the first of two tasks after a worker had started
\* it: the task is still started, by the same worker, and the second task
\* is as it was scheduled.
C24_Witness ==
    /\ pc = "building"
    /\ history # <<>>
    /\ execution # Unset
    /\ Last(history).type = "ActivityTaskCancelRequested"
    /\ Len(Tasks) = 2
    /\ Tasks[1].id = Last(history).task_id
    /\ Tasks[1].cancel_requested
    /\ Tasks[1].status = "started"
    /\ Tasks[1].worker_identity = "w1"
    /\ Tasks[1].ended = None
    /\ Tasks[2].status = "scheduled"
    /\ ~Tasks[2].cancel_requested

(***************************************************************************)
(* C25: a decision-task-completed event never fails, whether or not the    *)
(* execution-started event has been folded, and changes one thing: the     *)
(* builder's latest-decision id becomes the event's id.  The snapshot with *)
(* its lists of tasks, child executions, timers and signals, the objects   *)
(* in them and the correlation tables stay as they were.                   *)
(***************************************************************************)
C25_DecisionCompletedFrame ==
    [][(EventTaken /\ Last(history').type = "DecisionTaskCompleted")
        => /\ pc' = "building"
           /\ error' = "none"
           /\ _latest_decision_event_id' = {Last(history').id}
           /\ UNCHANGED <<execution, taskObjs, childObjs, timerObjs, _tasks,
                          _child_executions, _child_execution_initiation_events,
                          _timers>>]_vars

\* A decision was folded before the execution started and another one
\* after a signal or a task had been recorded.
C25_Witness ==
    /\ pc = "building"
    /\ Len(history) = 4
    /\ history[1].type = "DecisionTaskCompleted"
    /\ history[2].type = "WorkflowExecutionStarted"
    /\ history[4].type = "DecisionTaskCompleted"
    /\ _latest_decision_event_id = {4}
    /\ execution # Unset
    /\ Len(execution.signals) + Len(execution.tasks) = 1

(***************************************************************************)
(* C26: an event of a variant no branch matches (decision-task scheduled)  *)
(* is skipped: folding it raises nothing and leaves the snapshot, the      *)
(* objects, the correlation tables and the latest-decision id unchanged;   *)
(* and the call is, at every moment and when it returns, what it is over   *)
(* the same history with these events removed.                             *)
(***************************************************************************)
\* The history without the events no branch matches.
WithoutSkipped(h) ==
    SelectSeq(h, LAMBDA event : event.type # "DecisionTaskScheduled")

C26_UnmatchedEventSkipped ==
    /\ [][(EventTaken /\ Last(history').type = "DecisionTaskScheduled")
            => /\ pc' = "building"
               /\ error' = "none"
               /\ UNCHANGED builderVars]_vars
    /\ [](Running = [Alone([Running EXCEPT
                                !.history = WithoutSkipped(history)])
                        EXCEPT !.history = history])

\* build_state returned a snapshot with one task from a history with a
\* decision-task-scheduled event between the start and the task.
C26_Witness ==
    /\ pc = "returned"
    /\ Len(history) = 3
    /\ history[1].type = "WorkflowExecutionStarted"
    /\ history[2].type = "DecisionTaskScheduled"
    /\ history[3].type = "ActivityTaskScheduled"
    /\ Len(Tasks) = 1
    /\ Tasks[1].scheduled = history[3].occured

(***************************************************************************)
(* C27: a timer-started event that is applied appends a timer with status  *)
(* started, the event's timer id and its timestamp to execution.timers and *)
(* registers it under the event's own id.  A timer fired or cancelled      *)
(* event that is applied sets status fired or cancelled and the end time   *)
(* on the timer its back-reference's started event created, and on no      *)
(* other, whatever timer ids the timers carry.                             *)
(***************************************************************************)
\* The place, among the timers created so far, of the one the started
\* event with this id created: timers are created in the order of their
\* started events.
TimerStartedAt(h, id) ==
    Cardinality({k \in 1..Len(h) : h[k].type = "TimerStarted" /\ h[k].id <= id})

C27_TimerLifecycle ==
    [][(EventTaken /\ pc' = "building")
        => LET event == Last(history')
           IN  /\ event.type = "TimerStarted"
                    => /\ Len(timerObjs') = Len(timerObjs) + 1
                       /\ SubSeq(timerObjs', 1, Len(timerObjs)) = timerObjs
                       /\ Last(timerObjs').status = "started"
                       /\ Last(timerObjs').id = event.timer_id
                       /\ Last(timerObjs').started = event.occured
                       /\ Last(timerObjs').ended = None
                       /\ execution'.timers =
                            Append(execution.timers, Len(timerObjs'))
                       /\ event.id \in DOMAIN _timers'
                       /\ _timers'[event.id] = Len(timerObjs')
                       /\ \A id \in DOMAIN _timers :
                            id # event.id => _timers'[id] = _timers[id]
               /\ event.type \in TimerFollowUpTypes
                    => LET k == TimerStartedAt(history,
                                               event.timer_started_event_id)
                       IN  /\ k \in 1..Len(timerObjs)
                           /\ timerObjs[k].started =
                                EventWithId(history,
                                    event.timer_started_event_id).occured
                           /\ timerObjs' = [timerObjs EXCEPT
                                ![k].status =
                                    IF event.type = "TimerFired"
                                    THEN "fired" ELSE "cancelled",
                                ![k].ended = event.occured]
                           /\ UNCHANGED <<execution, _timers>>]_vars

\* Two timers carry the same timer id; the second one has fired and the
\* first one is still running.
C27_Witness ==
    /\ pc = "building"
    /\ execution # Unset
    /\ Len(Timers) = 2
    /\ Timers[1].id = Timers[2].id
    /\ Timers[1].status = "started"
    /\ Timers[1].ended = None
    /\ Timers[2].status = "fired"
    /\ Timers[2].ended = Last(history).occured

(***************************************************************************)
(* The child-started events behind the snapshot's children: those folded   *)
(* since the execution-started event that made the snapshot.               *)
(***************************************************************************)
\* Where the last execution-started event of h is; 0 when there is none.
LastStart(h) ==
    LET starts == {k \in 1..Len(h) : h[k].type = "WorkflowExecutionStarted"}
    IN  IF starts = {} THEN 0
        ELSE CHOOSE k \in starts : \A j \in starts : j <= k

ChildStartedEvents ==
    SelectSeq(SubSeq(Folded, LastStart(Folded) + 1, Len(Folded)),
              LAMBDA event : event.type = "ChildWorkflowExecutionStarted")

\* Every child of the snapshot is the one the child-started event at its
\* place created.
ChildrenMatchStartedEvents ==
    /\ Len(ChildExecutions) = Len(ChildStartedEvents)
    /\ \A i \in 1..Len(ChildExecutions) :
            /\ ChildExecutions[i].started = ChildStartedEvents[i].occured
            /\ ChildExecutions[i].execution = ChildStartedEvents[i].execution

(***************************************************************************)
(* C28, as stated: the entries of execution.child_executions are in the    *)
(* order of the child-initiated events that requested them, whatever the   *)
(* order of their started events.                                          *)
(***************************************************************************)
C28_ChildrenInInitiationOrder ==
    execution # Unset
        => /\ ChildrenMatchStartedEvents
           /\ \A i, j \in 1..Len(ChildStartedEvents) :
                i < j => ChildStartedEvents[i].execution_initiated_event_id
                            <= ChildStartedEvents[j].execution_initiated_event_id

(***************************************************************************)
(* C28, amended: the entries of execution.child_executions are in the      *)
(* order of the child-started events that created them: entry i is the     *)
(* child of the i-th child-started event folded since the snapshot was     *)
(* made, whatever the order of the initiated events.                       *)
(***************************************************************************)
C28_ChildrenInStartedOrder ==
    execution # Unset
        => /\ ChildrenMatchStartedEvents
           /\ \A i, j \in 1..Len(ChildStartedEvents) :
                i < j => ChildStartedEvents[i].id < ChildStartedEvents[j].id

\* Two children were initiated one after the other and started in the
\* opposite order: the one initiated second is first in the list.
C28_Witness ==
    /\ pc = "building"
    /\ execution # Unset
    /\ Len(ChildExecutions) = 2
    /\ Len(ChildStartedEvents) = 2
    /\ ChildStartedEvents[1].execution_initiated_event_id
            > ChildStartedEvents[2].execution_initiated_event_id
    /\ ChildExecutions[1].started = ChildStartedEvents[1].occured
    /\ ChildExecutions[2].started = ChildStartedEvents[2].occured

(***************************************************************************)
(* C29: events folded after an execution-closing event are applied as      *)
(* they are before it.  A second closing event sets the status and the     *)
(* end time to its own; a task scheduled, child initiated, child started   *)
(* (with one matching initiation), timer started or signal (after a        *)
(* decision) event adds its entity; a decision and an execution-started    *)
(* event are taken as well; none of them fails because the execution has   *)
(* ended.                                                                  *)
(***************************************************************************)
C29_EventsAfterEndApplied ==
    [][(/\ EventTaken
        /\ execution # Unset
        /\ execution.status # "started")
        => LET event == Last(history')
               kept == /\ execution'.status = execution.status
                       /\ execution'.ended = execution.ended
           IN  /\ event.type \in TerminalTypes
                    => /\ pc' = "building"
                       /\ execution'.status = TargetStatus(event.type)
                       /\ execution'.ended = event.occured
               /\ event.type = "ActivityTaskScheduled"
                    => /\ pc' = "building"
                       /\ Len(Tasks') = Len(Tasks) + 1
                       /\ Last(Tasks').id = event.task_id
                       /\ Last(Tasks').status = "scheduled"
                       /\ kept
               /\ event.type = "TimerStarted"
                    => /\ pc' = "building"
                       /\ Len(Timers') = Len(Timers) + 1
                       /\ Last(Timers').started = event.occured
                       /\ kept
               /\ event.type = "StartChildWorkflowExecutionInitiated"
                    => /\ pc' = "building"
                       /\ _child_execution_initiation_events' =
                            Append(_child_execution_initiation_events, event)
                       /\ kept
               /\ (/\ event.type = "ChildWorkflowExecutionStarted"
                   /\ Cardinality(InitiationsWithId(
                            event.execution_initiated_event_id)) = 1)
                    => /\ pc' = "building"
                       /\ Len(ChildExecutions') = Len(ChildExecutions) + 1
                       /\ Last(ChildExecutions').started = event.occured
                       /\ kept
               /\ (/\ event.type = "WorkflowExecutionSignaled"
                   /\ _latest_decision_event_id # {})
                    => /\ pc' = "building"
                       /\ Len(execution'.signals) = Len(execution.signals) + 1
                       /\ Last(execution'.signals).received = event.occured
                       /\ kept
               /\ event.type = "DecisionTaskCompleted"
                    => /\ pc' = "building"
                       /\ _latest_decision_event_id' = {event.id}
                       /\ kept
               /\ event.type = "WorkflowExecutionStarted"
                    => /\ pc' = "building"
                       /\ execution'.status = "started"
                       /\ execution'.started = event.occured]_vars

\* The execution completed, a task was scheduled after that, and then the
\* execution failed: the snapshot says failed, ended at the last event, and
\* holds the task.
C29_Witness ==
    /\ pc = "building"
    /\ Len(history) = 4
    /\ history[1].type = "WorkflowExecutionStarted"
    /\ history[2].type = "WorkflowExecutionCompleted"
    /\ history[3].type = "ActivityTaskScheduled"
    /\ history[4].type = "WorkflowExecutionFailed"
    /\ execution.status = "failed"
    /\ execution.ended = history[4].occured
    /\ Len(Tasks) = 1
    /\ Tasks[1].scheduled = history[3].occured

(***************************************************************************)
(* C30: build_state makes one forward pass over its input.  Every step of  *)
(* the loop takes the event at the head of what the iterator still holds   *)
(* and nothing else, so the events are taken once each in the order        *)
(* supplied, whatever their ids; what the call is after k events is the    *)
(* fold of the first k events alone, whatever the iterator still holds: a  *)
(* follow-up event whose scheduled event comes later in the list fails,    *)
(* and the tasks are listed in the order supplied, not in that of their    *)
(* ids.                                                                    *)
(***************************************************************************)
C30_SingleForwardPass ==
    /\ [][/\ EventTaken
                => /\ execution_history # <<>>
                   /\ history' = Append(history, Head(execution_history))
                   /\ execution_history' = Tail(execution_history)
          /\ ~EventTaken => UNCHANGED execution_history
          /\ (EventTaken /\ Dangling(Last(history'), history))
                => /\ pc' = "raised"
                   /\ UNCHANGED builderVars]_vars
    /\ [](/\ Running = Alone(Running)
          /\ execution # Unset
                => /\ Len(Tasks) = Len(ScheduledEvents)
                   /\ \A i \in 1..Len(Tasks) :
                        Tasks[i].scheduled = ScheduledEvents[i].occured)

\* build_state returned from a list that holds the task scheduled under id
\* 3 before the one scheduled under id 2: the snapshot lists them so.
C30_Witness ==
    /\ pc = "returned"
    /\ execution_history = <<>>
    /\ Len(history) = 3
    /\ history[2].id = 3
    /\ history[3].id = 2
    /\ Len(Tasks) = 2
    /\ Tasks[1].id = "t2"
    /\ Tasks[2].id = "t1"

(***************************************************************************)
(* C31: build_state returns a snapshot only when an execution-started      *)
(* event was folded before every event that touches the snapshot.  It      *)
(* fails for the empty history and for every history without such an       *)
(* event; an execution-closing, task-scheduled, timer-started,             *)
(* child-started or signal event folded while there is no snapshot         *)
(* raises; and an execution-started event folded while there is a snapshot *)
(* replaces it by a fresh one with no task, child, timer or signal.        *)
(***************************************************************************)
\* The events that can be folded while there is no snapshot.
SnapshotFreeTypes ==
    {"DecisionTaskCompleted", "DecisionTaskScheduled",
     "StartChildWorkflowExecutionInitiated"}

C31_SnapshotNeedsStart ==
    [][/\ pc' = "returned"
            => /\ execution' # Unset
               /\ \E k \in 1..Len(history') :
                    /\ history'[k].type = "WorkflowExecutionStarted"
                    /\ \A j \in 1..(k - 1) :
                            history'[j].type \in SnapshotFreeTypes
       /\ (~EventTaken /\ pc' # pc /\ execution = Unset)
            => pc' = "raised_at_return" /\ error' = "AttributeError"
       /\ (/\ EventTaken
           /\ execution = Unset
           /\ Last(history').type \notin
                SnapshotFreeTypes \cup {"WorkflowExecutionStarted"})
            => /\ pc' = "raised"
               /\ execution' = Unset
       /\ (EventTaken /\ Last(history').type = "WorkflowExecutionStarted")
            => /\ pc' = "building"
               /\ execution' =
                    ExecutionState(Last(history').execution_configuration,
                                   Last(history').occured,
                                   Last(history').execution_input)
               /\ execution'.tasks = <<>>
               /\ execution'.child_executions = <<>>
               /\ execution'.timers = <<>>
               /\ execution'.signals = <<>>]_vars

\* build_state returned from a history in which a second execution-started
\* event followed a task and a timer: the snapshot holds neither.
C31_Witness ==
    /\ pc = "returned"
    /\ Len(history) = 4
    /\ history[1].type = "WorkflowExecutionStarted"
    /\ history[2].type = "ActivityTaskScheduled"
    /\ history[3].type = "TimerStarted"
    /\ history[4].type = "WorkflowExecutionStarted"
    /\ execution.started = history[4].occured
    /\ execution.tasks = <<>>
    /\ execution.timers = <<>>
    /\ Len(taskObjs) = 1

(***************************************************************************)
(* C32: for every chain of pages, pages without items included, the        *)
(* iteration raises nothing but StopIteration, and when it has stopped the *)
(* consumer holds the last page and has yielded the items of all pages,    *)
(* page after page.                                                        *)
(***************************************************************************)
C32_EmptyPagesTolerated ==
    /\ ipc # "raised"
    /\ ipc = "stopped"
        => /\ response.nextPageToken = None
           /\ yielded = ModelsOfPages(Len(pages))

(***************************************************************************)
(* C33: however get_page calls and iteration steps on one consumer are     *)
(* interleaved, no item is yielded twice by the iteration, and a prefetch  *)
(* is recorded in _future only while the current response carries a        *)
(* next-page token.                                                        *)
(***************************************************************************)
C33_PrefetchOnlyWithToken ==
    /\ \A m, n \in 1..Len(yielded) : m # n => yielded[m] # yielded[n]
    /\ (ipc = "ready" /\ _future # {}) => response.nextPageToken # None

\* The models of page k.
ModelsOfPage(k) == [i \in 1..Len(pages[k]) |-> model(pages[k][i])]

\* The walk has returned its last page.
WalkOver == returned # <<>> /\ Last(returned).token = None

(***************************************************************************)
(* C34: a walk through the pages with get_page, first without a token and  *)
(* then with the token the previous call returned, returns page after page *)
(* with its items, ends with a None token at the last page, and by then    *)
(* the paginated method has been called once per page, the call made by    *)
(* iter_paged included, and no fetch is outstanding.                       *)
(***************************************************************************)
C34_WalkCallsOncePerPage ==
    /\ Len(returned) <= Len(pages)
    /\ \A k \in 1..Len(returned) :
        /\ k <= Len(pages)
        /\ returned[k].models = ModelsOfPage(k)
        /\ returned[k].token = IF k < Len(pages) THEN Token(k + 1) ELSE None
    /\ WalkOver
        => /\ Len(returned) = Len(pages)
           /\ calls = CallPerPage
           /\ Outstanding = {}

C34_Witness ==
    /\ WalkOver
    /\ Len(returned) = MaxPages
    /\ \E k \in 1..Len(pages) : pages[k] = <<>>
    /\ Len(futures) = 1
    /\ futures[1].state = "finished"

(***************************************************************************)
(* C35: once throw has been called the iterator is exhausted: no prefetch  *)
(* and no next-page token are recorded, every later send raises            *)
(* StopIteration without yielding, and no fetch is submitted any more.     *)
(***************************************************************************)
C35_ExhaustedAfterThrow ==
    /\ [](thrown # "no"
            => /\ _future = {}
               /\ response.nextPageToken = None
               /\ _i >= Len(_items(response)))
    /\ [][thrown # "no"
            => /\ yielded' = yielded
               /\ Len(futures') = Len(futures)
               /\ ipc' \in {ipc, "stopped"}]_vars

\* The error codes under which the class of the given name is registered:
\* its name without a trailing "Error", and for ValidationError both
\* ValidationError and ValidationException.
CodesOf(cls) ==
    IF cls = ValidationError
    THEN {ValidationError, ValidationException}
    ELSE IF Last(cls) = "Error"
    THEN {SubSeq(cls, 1, Len(cls) - 1)}
    ELSE {cls}

\* The SwfError subclasses registered for the given error code.
ClassesFor(code) ==
    {cls \in {SwfErrorSubclasses[n] : n \in 1..Len(SwfErrorSubclasses)} :
        code \in CodesOf(cls)}

(***************************************************************************)
(* C36: a call of a wrapped client method returns what the method returns; *)
(* when the method raises a ClientError whose code is registered for a     *)
(* SwfError subclass, that subclass is raised with the error message; for  *)
(* every other code, and for every other exception, the original exception *)
(* leaves the call unchanged.                                              *)
(***************************************************************************)
C36_ClientErrorsRedirected ==
    called # Unset
        => IF "returns" \in DOMAIN _f
           THEN called = [returns |-> _f.returns]
           ELSE IF _f.raises.type = "ClientError"
                   /\ ClassesFor(_f.raises.Code) # {}
           THEN /\ "raises" \in DOMAIN called
                /\ called.raises.type \in ClassesFor(_f.raises.Code)
                /\ called.raises.args = _f.raises.Message
           ELSE called = [raises |-> _f.raises]

C36_Witness ==
    /\ called # Unset
    /\ "raises" \in DOMAIN _f
    /\ _f.raises.type = "ClientError"
    /\ _f.raises.Code = ValidationException
    /\ called.raises = [type |-> ValidationError, args |-> "m1"]

(***************************************************************************)
(* C37: every read of DecisionTask.execution_history returns the events of *)
(* the history source, each once and in source order, whatever the source  *)
(* is (iterator or list), however often the property was read and however  *)
(* many events were taken through execution_history_iter before.           *)
(***************************************************************************)
C37_HistoryReadOnce ==
    \A n \in 1..Len(history_read) :
        history_read[n] = _execution_history_iter.events

(***************************************************************************)
(* C38: for API data holding any subset of the execution-configuration     *)
(* keys, the arguments that get_api_args makes of from_api(data) are the   *)
(* data again: the same keys, absent ones absent, with the same values.    *)
(***************************************************************************)
C38_ConfigurationRoundTrip ==
    api_args # Unset => api_args = api_data

(***************************************************************************)
(* C39: the API form of an ActivityId, read back by from_api, is the       *)
(* ActivityId again, so every describe, deprecate and undeprecate request  *)
(* names the activity with its own name and its own version.               *)
(***************************************************************************)
C39_ActivityIdRoundTrip ==
    \A n \in 1..Len(requests) :
        ActivityId_from_api(requests[n].kwargs.activityType) = activity_id
====
